---- MODULE Spec2Model ----
(***************************************************************************)
(* A model of the Thing creation page (CreateTwinScaleThing) of the        *)
(* twin administration console: the form state, the handlers that edit    *)
(* it, and the effect that renders the TwinInterface / TwinInstance YAML   *)
(* previews from the form state and the current tenant.                    *)
(* It also covers the submission of the draft (handleSubmit and the        *)
(* create request), the DTDL validation panel with its 500 ms timer and    *)
(* its requests, and the best-effort location lookup of the gateway.       *)
(*                                                                         *)
(* Representation of text.  A Thing id is a sequence of one-character      *)
(* strings, because the code inspects it character by character            *)
(* (includes, split, toLowerCase, replace).  Every other text value is an  *)
(* atomic string.  A YAML document is a sequence of lines (the code joins  *)
(* with "\n"); a line is the sequence of the text pieces that the template *)
(* literal concatenates, with empty pieces left out, so that two lines are *)
(* equal exactly when their text is.  The empty string '' is the document  *)
(* with no lines.                                                          *)
(***************************************************************************)
EXTENDS Integers, Sequences, FiniteSets, TLC

\* ------------------------------------------------------------------ bounds
MaxEdits == 4      \* form edits explored on the creation page
MaxProps == 2      \* entries in formData.properties
MaxRels  == 1      \* entries in formData.relationships
MaxCmds  == 1      \* entries in formData.commands
MaxIdLen == 5      \* characters of a raw id given to the normalizer

VARIABLES
  formData,        \* useState: the ThingDraft
  currentTenant,   \* useTenantStore().currentTenant: None or Some(tenant)
  interfaceYaml,   \* useState(''): the displayed TwinInterface preview
  instanceYaml,    \* useState(''): the displayed TwinInstance preview
  nEdits,          \* number of handler invocations so far (bounded)
  isLoading,       \* useState(false): a submission is pending
  route,           \* the router's location: "create" while the page is mounted
  createRequests,  \* create requests in flight: the sequence of their bodies
  toasts,          \* every toast raised so far, oldest first
  validationResult,  \* DTDLValidationPanel useState(null): None or Some(result)
  loading,           \* DTDLValidationPanel useState(false)
  timers,            \* pending setTimeout callbacks of the validation effect
  validateRequests,  \* validation requests in flight, oldest first
  sinceChange,       \* ms since the validation effect last ran (capped)
  rawId,           \* input of the identifier normalization, taken alone
  normalized,      \* its result: None, or Some([cleanId, normalizedId])
  lookup,          \* a location lookup taken alone: None or Some(call)
  located,         \* the promise it returned: None or Some(settlement)
  localStorage,   \* window.localStorage: the keys selectedTenant and currentTenant
  gatewayCall,   \* the gateway call made last: None or Some(call)
  sent,   \* the requests that call sent through axiosInstance
  settled,   \* how the promise of that call settled: None or Some(settlement)
  nCalls,   \* number of gateway steps so far (bounded)
  showDTDLModal,   \* page useState(false): the selection modal is open
  selectedInterface,   \* modal useState(null): None or Some(catalog entry)
  interfaceSummary,   \* modal useState(null): None or Some(summary)
  loadingSummary,   \* modal useState(false)
  summaryRequests,   \* getInterfaceSummary requests in flight: their dtmi, oldest first
  nClicks,   \* number of clicks in and on the modal so far (bounded)
  thingsPage,   \* the mounted page of the two: [kind, name, mount]
  interfaces,   \* TwinThingList useState([]): the names of the listed interfaces
  thingsLoading,   \* useState(true) isLoading of the mounted page
  interfaceData,   \* TwinThingDetails useState(null): None or Some(name)
  serverThings,   \* the interfaces the service holds
  thingRequests,   \* requests of the two pages in flight: [kind, name, page, mount]
  thingsToasts,   \* the toasts the two pages raised, oldest first
  nThingSteps,   \* number of clicks on the two pages so far (bounded)
  searchMode,   \* useState('standard'): the panel the page shows
  sparqlMode,   \* useState(false)
  isSearching,   \* useState(false)
  searchHistory,   \* useState([]): the type of each history entry, newest first
  searchRequests,   \* searches in flight: the kind of query each runs
  lastSearch,   \* the search started last: None or Some([panel, query])
  nSearchSteps,   \* number of clicks on the search page so far (bounded)
  currentMapStyle,   \* useState(mapStyle): the style handed to the map
  mapError,   \* useState(null): None or Some(error)
  fallbacksTried,   \* the fallback styles set since the style was last chosen, in order
  mapErrorLog,   \* the errors handleMapError logged, oldest first
  nMapSteps,   \* number of map events so far (bounded)
  location,   \* the location prop, owned by the parent: None or Some(location)
  isDialogOpen,   \* useState(false)
  tempLocation,   \* useState(null): None or Some(location)
  marker,   \* useState: [latitude, longitude], each None or Some(number)
  viewport,   \* useState: [latitude, longitude, zoom]
  pickerLookups,   \* handleMapClick calls in flight: [lat, lng, stage, address]
  lastClick,   \* the point clicked last since the dialog opened: None or Some([lat, lng])
  nPickerSteps   \* number of clicks on the picker so far (bounded)

vars == <<formData, currentTenant, interfaceYaml, instanceYaml, nEdits,
          isLoading, route, createRequests, toasts,
          validationResult, loading, timers, validateRequests, sinceChange,
          rawId, normalized, lookup, located,
          localStorage, gatewayCall, sent, settled, nCalls,
          showDTDLModal, selectedInterface, interfaceSummary, loadingSummary, summaryRequests, nClicks,
          thingsPage, interfaces, thingsLoading, interfaceData, serverThings, thingRequests, thingsToasts, nThingSteps,
          searchMode, sparqlMode, isSearching, searchHistory, searchRequests, lastSearch, nSearchSteps,
          currentMapStyle, mapError, fallbacksTried, mapErrorLog, nMapSteps,
          location, isDialogOpen, tempLocation, marker, viewport, pickerLookups, lastClick, nPickerSteps>>
pageVars == <<formData, currentTenant, interfaceYaml, instanceYaml, nEdits>>
submitVars == <<isLoading, route, createRequests, toasts>>
panelVars == <<validationResult, loading, timers, validateRequests, sinceChange>>
normVars == <<rawId, normalized>>
serviceVars == <<lookup, located>>

\* --------------------------------------------------------- null / undefined
None == <<>>
Some(v) == <<v>>

\* ------------------------------------------------------------------ strings
UpperCase == <<"A","B","C","D","E","F","G","H","I","J","K","L","M",
               "N","O","P","Q","R","S","T","U","V","W","X","Y","Z">>
LowerCase == <<"a","b","c","d","e","f","g","h","i","j","k","l","m",
               "n","o","p","q","r","s","t","u","v","w","x","y","z">>
Digits == {"0","1","2","3","4","5","6","7","8","9"}

Range(s) == {s[i] : i \in 1..Len(s)}

\* String.prototype.toLowerCase on one character (ASCII).
ToLowerChar(c) ==
  IF \E i \in 1..26 : UpperCase[i] = c
    THEN LowerCase[CHOOSE i \in 1..26 : UpperCase[i] = c]
    ELSE c

\* String.prototype.toLowerCase
ToLowerCase(s) == [i \in 1..Len(s) |-> ToLowerChar(s[i])]

\* the character class [a-z0-9-] of the slug regular expression
SlugChars == Range(LowerCase) \cup Digits \cup {"-"}

\* String.prototype.includes for a one-character needle
Includes(s, c) == \E i \in 1..Len(s) : s[i] = c

IndexOf(s, c) == CHOOSE i \in 1..Len(s) : s[i] = c /\ \A j \in 1..(i-1) : s[j] # c

\* String.prototype.split for a one-character separator
RECURSIVE Split(_, _)
Split(s, sep) ==
  IF ~Includes(s, sep) THEN <<s>>
  ELSE <<SubSeq(s, 1, IndexOf(s, sep) - 1)>>
         \o Split(SubSeq(s, IndexOf(s, sep) + 1, Len(s)), sep)

\* ------------------------------------------------- identifier normalization
\* const cleanId = formData.id.includes(':') ? formData.id.split(':')[1] : formData.id
CleanId(id) == IF Includes(id, ":") THEN Split(id, ":")[2] ELSE id

\* a slug that drops the disallowed characters instead of replacing them
NormalizedIdDropping(cleanId) ==
  SelectSeq(ToLowerCase(cleanId), LAMBDA c : c \in SlugChars)

\* String.prototype.replace(/[^a-z0-9-]/g, '-')
ReplaceNonSlug(s) == [i \in 1..Len(s) |-> IF s[i] \in SlugChars THEN s[i] ELSE "-"]

\* const normalizedId = cleanId.toLowerCase().replace(/[^a-z0-9-]/g, '-')
NormalizedId(cleanId) == ReplaceNonSlug(ToLowerCase(cleanId))

\* ------------------------------------------------------------ YAML pieces
\* a template literal `${prefix}${value}` of one line, for an atomic value
Line(prefix, value) == IF value = "" THEN <<prefix>> ELSE <<prefix, value>>

\* `${b}` for a boolean
BoolText(b) == IF b THEN "true" ELSE "false"

\* lines.join('\n') || fallback   (every joined entry is non-empty text)
JoinOr(lines, fallback) == IF lines = <<>> THEN <<fallback>> ELSE lines

RECURSIVE Join(_)
\* entries.join('\n'), each entry being the lines of one list item
Join(entries) ==
  IF entries = <<>> THEN <<>> ELSE Head(entries) \o Join(Tail(entries))

\* `ems-iodt2-${normalizedId}` after a key
NameLine(prefix, normalizedId) == <<prefix, "ems-iodt2-">> \o normalizedId

\* const labelsSection = []; ...push(tenant) if currentTenant; ...push(thing-type)
LabelsSection(fd, tenant) ==
  (IF tenant # None THEN << Line("    tenant: ", tenant[1].tenant_id) >> ELSE <<>>)
    \o << Line("    thing-type: ", fd.thing_type) >>

\* Instance labels that leave the tenant out
InstanceLabelsSectionNoTenant(fd, tenant) == << Line("    thing-type: ", fd.thing_type) >>

\* const instanceLabelsSection = []; built a second time for the Instance
InstanceLabelsSection(fd, tenant) ==
  (IF tenant # None THEN << Line("    tenant: ", tenant[1].tenant_id) >> ELSE <<>>)
    \o << Line("    thing-type: ", fd.thing_type) >>

\* a quoted annotation line `    key: "${value}"`
Quoted(prefix, value) == <<prefix, "\"">> \o (IF value = "" THEN <<>> ELSE <<value>>) \o <<"\"">>

\* annotations that put the model before the manufacturer
AnnotationsSectionSwapped(fd) ==
  (IF fd.model # "" THEN << Quoted("    model: ", fd.model) >> ELSE <<>>)
    \o (IF fd.manufacturer # "" THEN << Quoted("    manufacturer: ", fd.manufacturer) >> ELSE <<>>)
    \o (IF fd.serial_number # "" THEN << Quoted("    serialNumber: ", fd.serial_number) >> ELSE <<>>)
    \o (IF fd.firmware_version # "" THEN << Quoted("    firmwareVersion: ", fd.firmware_version) >> ELSE <<>>)

\* annotationsSection
AnnotationsSection(fd) ==
  (IF fd.manufacturer # "" THEN << Quoted("    manufacturer: ", fd.manufacturer) >> ELSE <<>>)
    \o (IF fd.model # "" THEN << Quoted("    model: ", fd.model) >> ELSE <<>>)
    \o (IF fd.serial_number # "" THEN << Quoted("    serialNumber: ", fd.serial_number) >> ELSE <<>>)
    \o (IF fd.firmware_version # "" THEN << Quoted("    firmwareVersion: ", fd.firmware_version) >> ELSE <<>>)

\* a property entry that always renders x-writable: false
PropertyEntryReadOnly(p) ==
  << Line("    - name: ", p.name),
     Line("      type: ", p.type),
     Line("      description: ", p.description),
     Line("      x-writable: ", "false") >>

\* one entry of formData.properties.map(p => ...)
PropertyEntry(p) ==
  << Line("    - name: ", p.name),
     Line("      type: ", p.type),
     Line("      description: ", p.description),
     Line("      x-writable: ", BoolText(p.writable)) >>

\* a relationship entry that also emits the description
RelationshipEntryWithDescription(r) ==
  << Line("    - name: ", r.name),
     Line("      interface: ", r.target_interface),
     Line("      description: ", r.description) >>

\* one entry of formData.relationships.map(r => ...)
RelationshipEntry(r) ==
  << Line("    - name: ", r.name),
     Line("      interface: ", r.target_interface) >>

\* one entry of formData.commands.map(c => ...)
CommandEntry(c) ==
  << Line("    - name: ", c.name),
     Line("      description: ", c.description) >>

EmptyMarker == <<"    []">>

\* a list section that leaves the empty-sequence marker out
ListSectionOmitEmpty(lines) == lines

\* `${list.map(...).join('\n') || '    []'}`
ListSection(lines) == JoinOr(lines, EmptyMarker)

\* const interfacePreview = `...`
InterfacePreview(fd, tenant) ==
  LET normalizedId == NormalizedId(CleanId(fd.id))
      annotationsSection == AnnotationsSection(fd)
  IN  << <<"apiVersion: dtd.twinscale/v0">>,
         <<"kind: TwinInterface">>,
         <<"metadata:">>,
         NameLine("  name: ", normalizedId),
         <<"  labels:">> >>
      \o LabelsSection(fd, tenant)
      \o (IF Len(annotationsSection) > 0
            THEN << <<"  annotations:">> >> \o annotationsSection
            ELSE <<>>)
      \o << <<"spec:">>,
            NameLine("  name: ", normalizedId),
            <<"  properties:">> >>
      \o ListSection(Join([ i \in 1..Len(fd.properties) |-> PropertyEntry(fd.properties[i]) ]))
      \o << <<"  relationships:">> >>
      \o ListSection(Join([ i \in 1..Len(fd.relationships) |-> RelationshipEntry(fd.relationships[i]) ]))
      \o << <<"  commands:">> >>
      \o ListSection(Join([ i \in 1..Len(fd.commands) |-> CommandEntry(fd.commands[i]) ]))

\* the argument of setInstanceYaml
InstancePreview(fd, tenant) ==
  LET normalizedId == NormalizedId(CleanId(fd.id))
  IN  << <<"apiVersion: dtd.twinscale/v0">>,
         <<"kind: TwinInstance">>,
         <<"metadata:">>,
         NameLine("  name: ", normalizedId),
         <<"  labels:">> >>
      \o InstanceLabelsSection(fd, tenant)
      \o << <<"spec:">>,
            NameLine("  name: ", normalizedId),
            NameLine("  interface: ", normalizedId),
            <<"  twinInstanceRelationships: []">> >>

\* useEffect(() => { if (formData.id && formData.name) {...} }, [formData, currentTenant])
\* run with the form state and tenant of the render that scheduled it
YamlPreviewEffect(fd, tenant) ==
  IF fd.id # <<>> /\ fd.name # ""
    THEN /\ interfaceYaml' = InterfacePreview(fd, tenant)
         /\ instanceYaml' = InstancePreview(fd, tenant)
    ELSE UNCHANGED <<interfaceYaml, instanceYaml>>

\* ------------------------------------------------------------ the form state
DefaultLatitude == 399334       \* 39.9334, in units of 1e-4 degree
DefaultLongitude == 328597      \* 32.8597

\* useState({...}): the initial formData
InitialFormData ==
  [ id |-> <<>>, name |-> "", description |-> "",
    properties |-> <<>>, relationships |-> <<>>, commands |-> <<>>,
    include_service_spec |-> TRUE, store_in_rdf |-> TRUE,
    latitude |-> DefaultLatitude, longitude |-> DefaultLongitude,
    thing_type |-> "device",
    manufacturer |-> "", model |-> "", serial_number |-> "", firmware_version |-> "",
    dtdl_interface |-> None, dtdl_interface_summary |-> None ]

\* { name: '', type: 'string', description: '', writable: false, unit: '', minimum: null, maximum: null }
NewProperty ==
  [ name |-> "", type |-> "string", description |-> "", writable |-> FALSE,
    unit |-> "", minimum |-> None, maximum |-> None ]

\* { name: '', target_interface: '', description: '' }
NewRelationship == [ name |-> "", target_interface |-> "", description |-> "" ]

\* { name: '', description: '' }
NewCommand == [ name |-> "", description |-> "" ]

\* a removal that always drops the last entry
RemoveAtEnd(list, index) ==
  [ i \in 1..(Len(list) - 1) |-> list[i] ]

\* array.filter((_, i) => i !== index)
RemoveAt(list, index) ==
  [ i \in 1..(Len(list) - 1) |-> IF i < index THEN list[i] ELSE list[i + 1] ]

\* const copy = [...list]; copy[index] = { ...copy[index], [field]: value }
UpdateAt(list, index, field, value) ==
  [ list EXCEPT ![index] = [ @ EXCEPT ![field] = value ] ]

\* ------------------------------------------------------------ input values
IdInputs == { <<>>, <<"a">>, <<"T", ":", "b">> }
NameInputs == { "", "Office Temp" }
TextInputs == { "", "x" }
ThingTypes == { "device", "sensor", "component" }
Latitudes == { DefaultLatitude, 410082 }
Longitudes == { DefaultLongitude, 289784 }
TenantIds == { "acme", "globex" }
Tenants == { [ tenant_id |-> t ] : t \in TenantIds }

PropertyFields ==
  { "name", "type", "description", "writable", "unit", "minimum", "maximum" }
PropertyFieldInputs(field) ==
  CASE field = "name" -> { "", "temperature" }
    [] field = "type" -> { "string", "float" }
    [] field = "description" -> { "", "d" }
    [] field = "writable" -> BOOLEAN
    [] field = "unit" -> { "", "C" }
    [] field = "minimum" -> { None, Some(10) }
    [] field = "maximum" -> { None, Some(10) }

RelationshipFields == { "name", "target_interface", "description" }
RelationshipFieldInputs(field) ==
  CASE field = "name" -> { "", "locatedIn" }
    [] field = "target_interface" -> { "", "ems-iodt2-location" }
    [] field = "description" -> { "", "d" }

CommandFields == { "name", "description" }
CommandFieldInputs(field) ==
  CASE field = "name" -> { "", "reset" }
    [] field = "description" -> { "", "d" }

\* DTDL catalog entries and summaries the selection modal can hand over
DTDLInterfaces ==
  { [ dtmi |-> "dtmi:a;1", displayName |-> "A" ],
    [ dtmi |-> "dtmi:b;1", displayName |-> "B" ] }

SummaryA ==
  [ propertyNames |-> <<"setpoint">>,
    propertyDetails |-> Some(<< [ name |-> "setpoint", type |-> None,
                                  description |-> None, writable |-> None,
                                  unit |-> None ] >>),
    telemetryDetails |-> Some(<< [ name |-> "temperature", type |-> Some("float"),
                                   description |-> Some("d"), writable |-> Some(TRUE),
                                   unit |-> Some("C") ] >>),
    commandDetails |-> Some(<< [ name |-> "reset", description |-> None ] >>) ]

SummaryB ==
  [ propertyNames |-> <<"p">>,
    propertyDetails |-> Some(<< [ name |-> "p", type |-> Some("integer"),
                                  description |-> Some("d"), writable |-> Some(FALSE),
                                  unit |-> None ] >>),
    telemetryDetails |-> None,
    commandDetails |-> None ]

DTDLSummaries == { SummaryA, SummaryB }

\* ------------------------------------------------ DTDL validation panel
ValidationDelay == 500   \* ms of the setTimeout of the validation effect

\* the value the timer callback sends for a property of the given type
DefaultValue(type) ==
  IF type = "boolean" THEN "false"
  ELSE IF type \in { "integer", "long" } THEN "0"
  ELSE IF type \in { "float", "double" } THEN "0.1"
  ELSE ""

\* propertiesDict: one key per property name, a later entry of the list
\* overwriting an earlier one of the same name
PropertiesDict(properties) ==
  { <<properties[i].name, DefaultValue(properties[i].type)>> :
      i \in { k \in 1..Len(properties) :
                \A j \in (k+1)..Len(properties) : properties[j].name # properties[k].name } }

\* the argument of validateThing built from what the callback closes over;
\* no property of the draft has isTelemetry, so telemetryDict stays empty
ValidationBody(input) ==
  [ thing_data |-> [ properties |-> PropertiesDict(input.properties), telemetry |-> {} ],
    dtmi |-> input.dtmi,
    strict |-> FALSE ]

\* the panel is rendered while the page is shown and an interface is bound
PanelMounted(fd) == fd.dtdl_interface # None

\* the values the effect's callback closes over in the render that shows fd
ValidationInput(fd) ==
  [ properties |-> fd.properties, dtmi |-> fd.dtdl_interface[1].dtmi ]

\* the state of a panel that was just unmounted, or never mounted: React
\* drops its state, and a response to an unmounted instance sets nothing
PanelGone ==
  /\ validationResult' = None
  /\ loading' = FALSE
  /\ timers' = {}
  /\ validateRequests' = <<>>
  /\ sinceChange' = 0

\* the effect whose cleanup leaves the previous timer pending
ValidationEffectNoCleanup(fd) ==
  /\ sinceChange' = 0
  /\ IF fd.properties = <<>>
       THEN /\ validationResult' = None
            /\ timers' = timers
       ELSE /\ timers' = timers \cup { [ input |-> ValidationInput(fd), due |-> ValidationDelay ] }
            /\ UNCHANGED validationResult
  /\ UNCHANGED <<loading, validateRequests>>

\* one run of the validation effect in a mounted panel showing fd: the
\* cleanup of the previous run (clearTimeout), then the body
ValidationEffect(fd) ==
  /\ sinceChange' = 0
  /\ IF fd.properties = <<>>
       THEN /\ validationResult' = None
            /\ timers' = {}
       ELSE /\ timers' = { [ input |-> ValidationInput(fd), due |-> ValidationDelay ] }
            /\ UNCHANGED validationResult
  /\ UNCHANGED <<loading, validateRequests>>

\* what a render of the page with draft `next` does to the panel; depsReplaced
\* says that the handler allocated a new properties or commands array or a
\* new dtdl_interface, the dependencies of the effect
PanelRender(next, depsReplaced) ==
  IF ~PanelMounted(next)
    THEN PanelGone
  ELSE IF ~PanelMounted(formData)
    THEN ValidationEffect(next)
  ELSE IF depsReplaced
    THEN ValidationEffect(next)
  ELSE UNCHANGED panelVars

\* ------------------------------------------------------------------- Init
SubmitIdle ==
  /\ isLoading = FALSE
  /\ route = "create"
  /\ createRequests = <<>>
  /\ toasts = <<>>

PanelIdle ==
  /\ validationResult = None
  /\ loading = FALSE
  /\ timers = {}
  /\ validateRequests = <<>>
  /\ sinceChange = 0

PageInit ==
  /\ formData = InitialFormData
  /\ currentTenant \in { None } \cup { Some(t) : t \in Tenants }
  /\ interfaceYaml = <<>>
  /\ instanceYaml = <<>>
  /\ nEdits = 0
  /\ SubmitIdle
  /\ PanelIdle

NormIdle == rawId = <<>> /\ normalized = None

ServiceIdle == lookup = None /\ located = None

\* ----------------------------------------- the other components, at rest
gatewayVars == <<localStorage, gatewayCall, sent, settled, nCalls>>
modalVars == <<showDTDLModal, selectedInterface, interfaceSummary, loadingSummary, summaryRequests, nClicks>>
thingsVars == <<thingsPage, interfaces, thingsLoading, interfaceData, serverThings, thingRequests, thingsToasts, nThingSteps>>
searchVars == <<searchMode, sparqlMode, isSearching, searchHistory, searchRequests, lastSearch, nSearchSteps>>
mapVars == <<currentMapStyle, mapError, fallbacksTried, mapErrorLog, nMapSteps>>
pickerVars == <<location, isDialogOpen, tempLocation, marker, viewport, pickerLookups, lastClick, nPickerSteps>>

restVars == <<gatewayVars, modalVars, thingsVars, searchVars, mapVars, pickerVars>>
creationVars == <<pageVars, submitVars, panelVars, normVars, serviceVars>>

\* no gateway call made, nothing persisted in local storage
GatewayIdle ==
  /\ localStorage = [ selectedTenant |-> None, currentTenant |-> None ]
  /\ gatewayCall = None
  /\ sent = <<>>
  /\ settled = None
  /\ nCalls = 0

\* the selection modal closed, nothing selected, no summary requested
ModalIdle ==
  /\ showDTDLModal = FALSE
  /\ selectedInterface = None
  /\ interfaceSummary = None
  /\ loadingSummary = FALSE
  /\ summaryRequests = <<>>
  /\ nClicks = 0

\* the list page not yet mounted, both Things on the server
ThingsIdle ==
  /\ thingsPage = [ kind |-> "none", name |-> "", mount |-> 0 ]
  /\ interfaces = {}
  /\ thingsLoading = TRUE
  /\ interfaceData = None
  /\ serverThings = { "pump", "valve" }
  /\ thingRequests = <<>>
  /\ thingsToasts = <<>>
  /\ nThingSteps = 0

\* the search page as mounted: standard mode, no search made
SearchIdle ==
  /\ searchMode = "standard"
  /\ sparqlMode = FALSE
  /\ isSearching = FALSE
  /\ searchHistory = <<>>
  /\ searchRequests = <<>>
  /\ lastSearch = None
  /\ nSearchSteps = 0

\* the map as mounted: the primary style, no error
MapIdle ==
  /\ currentMapStyle = [ kind |-> "url", value |-> "positron" ]
  /\ mapError = None
  /\ fallbacksTried = <<>>
  /\ mapErrorLog = <<>>
  /\ nMapSteps = 0

\* the picker as mounted without a location: dialog closed, no marker
PickerIdle ==
  /\ location = None
  /\ isDialogOpen = FALSE
  /\ tempLocation = None
  /\ marker = [ latitude |-> None, longitude |-> None ]
  /\ viewport = [ latitude |-> DefaultLatitude, longitude |-> DefaultLongitude, zoom |-> 10 ]
  /\ pickerLookups = <<>>
  /\ lastClick = None
  /\ nPickerSteps = 0

RestIdle ==
  /\ GatewayIdle
  /\ ModalIdle
  /\ ThingsIdle
  /\ SearchIdle
  /\ MapIdle
  /\ PickerIdle

\* the creation page before its first render, with no tenant
CreationIdle == PageInit /\ currentTenant = None /\ NormIdle /\ ServiceIdle

\* everything but the state of the gateway client
exceptGatewayVars == <<creationVars, modalVars, thingsVars, searchVars, mapVars, pickerVars>>
ExceptGatewayIdle ==
  /\ CreationIdle
  /\ ModalIdle
  /\ ThingsIdle
  /\ SearchIdle
  /\ MapIdle
  /\ PickerIdle

\* everything but the state of the DTDL selection modal
exceptModalVars == <<creationVars, gatewayVars, thingsVars, searchVars, mapVars, pickerVars>>
ExceptModalIdle ==
  /\ CreationIdle
  /\ GatewayIdle
  /\ ThingsIdle
  /\ SearchIdle
  /\ MapIdle
  /\ PickerIdle

\* the components other than the creation page and the DTDL selection modal
besideModalVars == <<gatewayVars, thingsVars, searchVars, mapVars, pickerVars>>

\* everything but the state of the list and details pages
exceptThingsVars == <<creationVars, gatewayVars, modalVars, searchVars, mapVars, pickerVars>>
ExceptThingsIdle ==
  /\ CreationIdle
  /\ GatewayIdle
  /\ ModalIdle
  /\ SearchIdle
  /\ MapIdle
  /\ PickerIdle

\* everything but the state of the search page
exceptSearchVars == <<creationVars, gatewayVars, modalVars, thingsVars, mapVars, pickerVars>>
ExceptSearchIdle ==
  /\ CreationIdle
  /\ GatewayIdle
  /\ ModalIdle
  /\ ThingsIdle
  /\ MapIdle
  /\ PickerIdle

\* everything but the state of the map component
exceptMapVars == <<creationVars, gatewayVars, modalVars, thingsVars, searchVars, pickerVars>>
ExceptMapIdle ==
  /\ CreationIdle
  /\ GatewayIdle
  /\ ModalIdle
  /\ ThingsIdle
  /\ SearchIdle
  /\ PickerIdle

\* everything but the state of the location picker
exceptPickerVars == <<creationVars, gatewayVars, modalVars, thingsVars, searchVars, mapVars>>
ExceptPickerIdle ==
  /\ CreationIdle
  /\ GatewayIdle
  /\ ModalIdle
  /\ ThingsIdle
  /\ SearchIdle
  /\ MapIdle

\* ------------------------------------------------ end of the components

Init == PageInit /\ NormIdle /\ ServiceIdle /\ RestIdle

\* --------------------------------------------------------------- handlers
\* setFormData(next), the re-render, and the effects the render schedules:
\* the preview effect of the page and the validation effect of the panel
CommitPage(next, depsReplaced, raised) ==
  /\ route = "create"
  /\ nEdits < MaxEdits
  /\ nEdits' = nEdits + 1
  /\ formData' = next
  /\ YamlPreviewEffect(next, currentTenant)
  /\ PanelRender(next, depsReplaced)
  /\ toasts' = toasts \o raised
  /\ UNCHANGED <<currentTenant, isLoading, route, createRequests, normVars, serviceVars>>

\* the same where no other component takes part in the step
Commit(next, depsReplaced, raised) ==
  /\ CommitPage(next, depsReplaced, raised)
  /\ UNCHANGED restVars

\* a handler that spreads formData and replaces a field the panel does not
\* depend on
SetFormData(next) == Commit(next, FALSE, <<>>)

\* a handler that replaces properties, commands or dtdl_interface
SetFormDataDeps(next) == Commit(next, TRUE, <<>>)

\* toast({ variant, title, description }): the description is the sequence of
\* its text pieces; a translated text is its key followed by its parameters
Toast(variant, title, description) ==
  [ variant |-> variant, title |-> title, description |-> description ]

RECURSIVE NumText(_)
\* `${n}` for a natural number n
NumText(n) ==
  LET digit == <<"0", "1", "2", "3", "4", "5", "6", "7", "8", "9">>[(n % 10) + 1]
  IN  IF n < 10 THEN <<digit>> ELSE NumText(n \div 10) \o <<digit>>

\* a handler that writes the tenant prefix into the stored id
handleIdChangePrefixing(value) ==
  LET finalId == IF currentTenant # None /\ value # <<>> /\ ~Includes(value, ":")
                   THEN <<currentTenant[1].tenant_id, ":">> \o value
                   ELSE value
  IN  SetFormData([ formData EXCEPT !.id = finalId ])

handleIdChange(value) ==
  LET finalId == IF currentTenant # None /\ value # <<>> /\ ~Includes(value, ":")
                   THEN value
                   ELSE value
  IN  SetFormData([ formData EXCEPT !.id = finalId ])

SetName(value) == SetFormData([ formData EXCEPT !.name = value ])
SetDescription(value) == SetFormData([ formData EXCEPT !.description = value ])
SetThingType(value) == SetFormData([ formData EXCEPT !.thing_type = value ])
SetManufacturer(value) == SetFormData([ formData EXCEPT !.manufacturer = value ])
SetModel(value) == SetFormData([ formData EXCEPT !.model = value ])
SetSerialNumber(value) == SetFormData([ formData EXCEPT !.serial_number = value ])
SetFirmwareVersion(value) == SetFormData([ formData EXCEPT !.firmware_version = value ])
SetLatitude(value) == SetFormData([ formData EXCEPT !.latitude = value ])
SetLongitude(value) == SetFormData([ formData EXCEPT !.longitude = value ])

handleMapClick(lat, lng) ==
  SetFormData([ formData EXCEPT !.latitude = lat, !.longitude = lng ])

addProperty ==
  SetFormDataDeps([ formData EXCEPT !.properties = Append(@, NewProperty) ])

removeProperty(index) ==
  SetFormDataDeps([ formData EXCEPT !.properties = RemoveAt(@, index) ])

updateProperty(index, field, value) ==
  SetFormDataDeps([ formData EXCEPT !.properties = UpdateAt(@, index, field, value) ])

addRelationship ==
  SetFormData([ formData EXCEPT !.relationships = Append(@, NewRelationship) ])

removeRelationship(index) ==
  SetFormData([ formData EXCEPT !.relationships = RemoveAt(@, index) ])

updateRelationship(index, field, value) ==
  SetFormData([ formData EXCEPT !.relationships = UpdateAt(@, index, field, value) ])

addCommand ==
  SetFormDataDeps([ formData EXCEPT !.commands = Append(@, NewCommand) ])

removeCommand(index) ==
  SetFormDataDeps([ formData EXCEPT !.commands = RemoveAt(@, index) ])

updateCommand(index, field, value) ==
  SetFormDataDeps([ formData EXCEPT !.commands = UpdateAt(@, index, field, value) ])

\* -------------------------------------------------------------- DTDL binding
handleDTDLSelect(iface, fetched) ==
  Commit([ formData EXCEPT !.dtdl_interface = Some(iface),
                           !.dtdl_interface_summary = fetched ],
         TRUE,
         << Toast("default", "common.success",
                  <<"dtdl.interfaceSelected", iface.displayName>>) >>)

\* the remove button is rendered only while an interface is bound
handleRemoveDTDL ==
  /\ formData.dtdl_interface # None
  /\ SetFormDataDeps([ formData EXCEPT !.dtdl_interface = None,
                                       !.dtdl_interface_summary = None ])

\* x || d for an optional string x
OrText(x, d) == IF x = None \/ x = Some("") THEN d ELSE x[1]

\* x ?? d
Coalesce(x, d) == IF x = None THEN d ELSE x[1]

\* a mapping that takes writable with || instead of ??
dtdlPropertyWritableOr(prop) ==
  [ name |-> prop.name,
    type |-> OrText(prop.type, "string"),
    description |-> OrText(prop.description, ""),
    writable |-> TRUE,
    unit |-> OrText(prop.unit, ""),
    minimum |-> None,
    maximum |-> None ]

\* summary.propertyDetails?.map((prop) => ({...}))
dtdlProperty(prop) ==
  [ name |-> prop.name,
    type |-> OrText(prop.type, "string"),
    description |-> OrText(prop.description, ""),
    writable |-> Coalesce(prop.writable, TRUE),
    unit |-> OrText(prop.unit, ""),
    minimum |-> None,
    maximum |-> None ]

\* a mapping that keeps the writable flag of the telemetry entry
dtdlTelemetryPropertyKeepingWritable(tel) ==
  [ name |-> tel.name,
    type |-> OrText(tel.type, "float"),
    description |-> OrText(tel.description, ""),
    writable |-> Coalesce(tel.writable, FALSE),
    unit |-> OrText(tel.unit, ""),
    minimum |-> None,
    maximum |-> None ]

\* summary.telemetryDetails?.map((tel) => ({...}))
dtdlTelemetryProperty(tel) ==
  [ name |-> tel.name,
    type |-> OrText(tel.type, "float"),
    description |-> OrText(tel.description, ""),
    writable |-> FALSE,
    unit |-> OrText(tel.unit, ""),
    minimum |-> None,
    maximum |-> None ]

\* summary.commandDetails?.map((cmd) => ({...}))
dtdlCommand(cmd) ==
  [ name |-> cmd.name, description |-> OrText(cmd.description, "") ]

\* an auto-fill that leaves out what the draft already holds
handleAutoFillSkippingExisting ==
  /\ formData.dtdl_interface # None
  /\ formData.dtdl_interface_summary # None
  /\ Len(formData.dtdl_interface_summary[1].propertyNames) > 0
  /\ LET summary == formData.dtdl_interface_summary[1]
         dtdlProperties ==
           IF summary.propertyDetails = None THEN <<>>
           ELSE [ i \in 1..Len(summary.propertyDetails[1]) |->
                    dtdlProperty(summary.propertyDetails[1][i]) ]
         dtdlTelemetry ==
           IF summary.telemetryDetails = None THEN <<>>
           ELSE [ i \in 1..Len(summary.telemetryDetails[1]) |->
                    dtdlTelemetryProperty(summary.telemetryDetails[1][i]) ]
         dtdlCommands ==
           IF summary.commandDetails = None THEN <<>>
           ELSE [ i \in 1..Len(summary.commandDetails[1]) |->
                    dtdlCommand(summary.commandDetails[1][i]) ]
     IN  SetFormDataDeps([ formData EXCEPT
           !.properties = IF @ = <<>> THEN dtdlProperties \o dtdlTelemetry ELSE @,
           !.commands = IF @ = <<>> THEN dtdlCommands ELSE @ ])

\* the auto-fill button is rendered while an interface is bound and enabled
\* while the summary has propertyNames; the handler returns early without one
handleAutoFillFromDTDL ==
  /\ formData.dtdl_interface # None
  /\ formData.dtdl_interface_summary # None
  /\ Len(formData.dtdl_interface_summary[1].propertyNames) > 0
  /\ LET summary == formData.dtdl_interface_summary[1]
         dtdlProperties ==
           IF summary.propertyDetails = None THEN <<>>
           ELSE [ i \in 1..Len(summary.propertyDetails[1]) |->
                    dtdlProperty(summary.propertyDetails[1][i]) ]
         dtdlTelemetry ==
           IF summary.telemetryDetails = None THEN <<>>
           ELSE [ i \in 1..Len(summary.telemetryDetails[1]) |->
                    dtdlTelemetryProperty(summary.telemetryDetails[1][i]) ]
         dtdlCommands ==
           IF summary.commandDetails = None THEN <<>>
           ELSE [ i \in 1..Len(summary.commandDetails[1]) |->
                    dtdlCommand(summary.commandDetails[1][i]) ]
     IN  Commit([ formData EXCEPT
                    !.properties = @ \o dtdlProperties \o dtdlTelemetry,
                    !.commands = @ \o dtdlCommands ],
                TRUE,
                << Toast("default", "common.success",
                         <<"Auto-filled ">> \o NumText(Len(dtdlProperties))
                           \o <<" properties, ">> \o NumText(Len(dtdlTelemetry))
                           \o <<" telemetry, ">> \o NumText(Len(dtdlCommands))
                           \o <<" commands from DTDL interface">>) >>)

\* ------------------------------------------------------------------ tenant
\* a tenant change after which the preview is not rendered again
TenantChangeWithoutEffect(tenant) ==
  /\ nEdits < MaxEdits
  /\ tenant # currentTenant
  /\ route = "create"
  /\ nEdits' = nEdits + 1
  /\ currentTenant' = tenant
  /\ UNCHANGED <<formData, interfaceYaml, instanceYaml, submitVars, panelVars,
                 normVars, serviceVars, restVars>>

\* the tenant store publishes another currentTenant; the page re-renders and
\* the preview effect runs again (currentTenant is one of its dependencies)
TenantChange(tenant) ==
  /\ nEdits < MaxEdits
  /\ tenant # currentTenant
  /\ route = "create"
  /\ nEdits' = nEdits + 1
  /\ currentTenant' = tenant
  /\ YamlPreviewEffect(formData, tenant)
  /\ UNCHANGED <<formData, submitVars, panelVars, normVars, serviceVars, restVars>>

\* -------------------------------------------------------------- submission
\* error.message of a rejected createTwinScaleThing (handleError)
CreateErrors ==
  { "Network error: Unable to connect to TwinScale service", "Thing already exists" }

\* a button that stays enabled while the request is pending
CreateButtonDisabledByTenantOnly == currentTenant = None

\* disabled={isLoading || !currentTenant} of the create button
CreateButtonDisabled == isLoading \/ currentTenant = None

\* a handleSubmit without the check of id and name
handleSubmitUnchecked ==
  /\ route = "create"
  /\ nEdits < MaxEdits
  /\ nEdits' = nEdits + 1
  /\ IF currentTenant = None
       THEN /\ toasts' = Append(toasts, Toast("destructive", "common.error",
                                 <<"Please select a tenant before creating a Thing">>))
            /\ UNCHANGED <<isLoading, createRequests>>
       ELSE /\ isLoading' = TRUE
            /\ createRequests' = Append(createRequests, [ body |-> formData ])
            /\ UNCHANGED toasts
  /\ UNCHANGED <<formData, currentTenant, interfaceYaml, instanceYaml, route,
                 panelVars, normVars, serviceVars, restVars>>

\* handleSubmit up to its await: the two checks, then setIsLoading(true) and
\* the POST of formData by createTwinScaleThing
handleSubmit ==
  /\ route = "create"
  /\ nEdits < MaxEdits
  /\ nEdits' = nEdits + 1
  /\ IF currentTenant = None
       THEN /\ toasts' = Append(toasts, Toast("destructive", "common.error",
                                 <<"Please select a tenant before creating a Thing">>))
            /\ UNCHANGED <<isLoading, createRequests>>
       ELSE IF formData.id = <<>> \/ formData.name = ""
       THEN /\ toasts' = Append(toasts, Toast("destructive", "Validation Error",
                                 <<"ID and Name are required">>))
            /\ UNCHANGED <<isLoading, createRequests>>
       ELSE /\ isLoading' = TRUE
            /\ createRequests' = Append(createRequests, [ body |-> formData ])
            /\ UNCHANGED toasts
  /\ UNCHANGED <<formData, currentTenant, interfaceYaml, instanceYaml, route,
                 panelVars, normVars, serviceVars, restVars>>

\* a click on the create button
ClickCreate == ~CreateButtonDisabled /\ handleSubmit

\* what the page's unmount does to the panel when the route leaves "create"
Unmount(to) ==
  /\ route' = to
  /\ IF route = "create" THEN PanelGone ELSE UNCHANGED panelVars

\* the POST of request i resolves: the rest of the try block of handleSubmit
\* and its finally; formData is the draft the handler closed over, the body
CreateSucceeded(i) ==
  /\ createRequests' = RemoveAt(createRequests, i)
  /\ toasts' = Append(toasts, Toast("default", "common.success",
                       <<"createThing.createSuccess", createRequests[i].body.name>>))
  /\ Unmount("things")
  /\ isLoading' = FALSE
  /\ UNCHANGED <<pageVars, normVars, serviceVars, restVars>>

\* the POST of request i rejects with an Error(message): catch and finally
CreateFailed(i, message) ==
  /\ createRequests' = RemoveAt(createRequests, i)
  /\ toasts' = Append(toasts, Toast("destructive", "common.error", <<message>>))
  /\ isLoading' = FALSE
  /\ UNCHANGED <<pageVars, route, panelVars, normVars, serviceVars, restVars>>

\* the user follows a link of the navigation bar: the page unmounts
LeavePage ==
  /\ route = "create"
  /\ Unmount("other")
  /\ UNCHANGED <<pageVars, isLoading, createRequests, toasts, normVars, serviceVars, restVars>>

\* ------------------------------------------------- validation, over time
TickMs == 250      \* ms that pass in one step of the clock

Min(a, b) == IF a < b THEN a ELSE b
Max(a, b) == IF a > b THEN a ELSE b

\* time passes on the open page; a callback that is due runs before more
\* time does
Tick ==
  /\ route = "create"
  /\ \A t \in timers : t.due > 0
  /\ sinceChange < ValidationDelay \/ timers # {}
  /\ sinceChange' = Min(sinceChange + TickMs, ValidationDelay)
  /\ timers' = { [ t EXCEPT !.due = Max(0, @ - TickMs) ] : t \in timers }
  /\ UNCHANGED <<pageVars, submitVars, validationResult, loading, validateRequests,
                 normVars, serviceVars, restVars>>

\* the setTimeout callback up to its await: setLoading(true), then the
\* request built from the formData and dtdlInterface it closed over
TimerFires(t) ==
  /\ t \in timers
  /\ t.due = 0
  /\ timers' = timers \ { t }
  /\ loading' = TRUE
  /\ validateRequests' = Append(validateRequests, ValidationBody(t.input))
  /\ UNCHANGED <<pageVars, submitVars, validationResult, sinceChange,
                 normVars, serviceVars, restVars>>

\* validateThing of request i resolves: setValidationResult(result), finally
ValidateSucceeded(i) ==
  /\ validationResult' = Some([ request |-> validateRequests[i] ])
  /\ loading' = FALSE
  /\ validateRequests' = RemoveAt(validateRequests, i)
  /\ UNCHANGED <<pageVars, submitVars, timers, sinceChange, normVars, serviceVars, restVars>>

\* validateThing of request i rejects: console.error,
\* setValidationResult(null), finally
ValidateFailed(i) ==
  /\ validationResult' = None
  /\ loading' = FALSE
  /\ validateRequests' = RemoveAt(validateRequests, i)
  /\ UNCHANGED <<pageVars, submitVars, timers, sinceChange, normVars, serviceVars, restVars>>

\* ------------------------------------------------------------------- Next
Next ==
  \/ \E value \in IdInputs : handleIdChange(value)
  \/ \E value \in NameInputs : SetName(value)
  \/ \E value \in TextInputs : SetDescription(value)
  \/ \E value \in ThingTypes : SetThingType(value)
  \/ \E value \in TextInputs : SetManufacturer(value)
  \/ \E value \in TextInputs : SetModel(value)
  \/ \E value \in TextInputs : SetSerialNumber(value)
  \/ \E value \in TextInputs : SetFirmwareVersion(value)
  \/ \E value \in Latitudes : SetLatitude(value)
  \/ \E value \in Longitudes : SetLongitude(value)
  \/ \E lat \in Latitudes, lng \in Longitudes : handleMapClick(lat, lng)
  \/ addProperty
  \/ \E index \in 1..Len(formData.properties) : removeProperty(index)
  \/ \E index \in 1..Len(formData.properties), field \in PropertyFields :
       \E value \in PropertyFieldInputs(field) : updateProperty(index, field, value)
  \/ addRelationship
  \/ \E index \in 1..Len(formData.relationships) : removeRelationship(index)
  \/ \E index \in 1..Len(formData.relationships), field \in RelationshipFields :
       \E value \in RelationshipFieldInputs(field) : updateRelationship(index, field, value)
  \/ addCommand
  \/ \E index \in 1..Len(formData.commands) : removeCommand(index)
  \/ \E index \in 1..Len(formData.commands), field \in CommandFields :
       \E value \in CommandFieldInputs(field) : updateCommand(index, field, value)
  \/ \E iface \in DTDLInterfaces,
        fetched \in { None } \cup { Some(x) : x \in DTDLSummaries } :
       handleDTDLSelect(iface, fetched)
  \/ handleRemoveDTDL
  \/ handleAutoFillFromDTDL
  \/ \E tenant \in { None } \cup { Some(t) : t \in Tenants } : TenantChange(tenant)

Spec == Init /\ [][Next]_vars

\* ------------------------------------------- the page and its submission
\* the page as the user drives it: the handlers reached through the controls
SubmitNext ==
  \/ \E value \in IdInputs : handleIdChange(value)
  \/ \E value \in NameInputs : SetName(value)
  \/ \E tenant \in { None } \cup { Some(t) : t \in Tenants } : TenantChange(tenant)
  \/ ClickCreate
  \/ \E i \in 1..Len(createRequests) : CreateSucceeded(i)
  \/ \E i \in 1..Len(createRequests), message \in CreateErrors : CreateFailed(i, message)
  \/ LeavePage

SpecSubmit == Init /\ [][SubmitNext]_vars

\* handleSubmit as a function of the page state: called in every state of the
\* mounted page, also those in which the create button is disabled
HandleSubmitNext ==
  \/ \E value \in IdInputs : handleIdChange(value)
  \/ \E value \in NameInputs : SetName(value)
  \/ \E tenant \in { None } \cup { Some(t) : t \in Tenants } : TenantChange(tenant)
  \/ handleSubmit
  \/ \E i \in 1..Len(createRequests) : CreateSucceeded(i)
  \/ \E i \in 1..Len(createRequests), message \in CreateErrors : CreateFailed(i, message)

SpecHandleSubmit == Init /\ [][HandleSubmitNext]_vars

\* ------------------------------------- the page and its validation panel
ValidationNext ==
  \/ \E iface \in DTDLInterfaces : handleDTDLSelect(iface, None)
  \/ handleRemoveDTDL
  \/ addProperty
  \/ \E index \in 1..Len(formData.properties) : removeProperty(index)
  \/ \E index \in 1..Len(formData.properties), field \in { "name", "type" } :
       \E value \in PropertyFieldInputs(field) : updateProperty(index, field, value)
  \/ addCommand
  \/ \E value \in NameInputs : SetName(value)
  \/ Tick
  \/ \E t \in timers : TimerFires(t)
  \/ \E i \in 1..Len(validateRequests) : ValidateSucceeded(i)
  \/ \E i \in 1..Len(validateRequests) : ValidateFailed(i)
  \/ LeavePage

SpecValidation == Init /\ [][ValidationNext]_vars

\* ------------------------------------------- the normalizer, taken alone
IdAlphabet == { "a", "B", ":", "!", "0", "-" }

SeqsUpTo(S, n) == UNION { [ 1..k -> S ] : k \in 0..n }

NormInit ==
  /\ PageInit
  /\ currentTenant = None
  /\ rawId \in SeqsUpTo(IdAlphabet, MaxIdLen)
  /\ normalized = None
  /\ ServiceIdle
  /\ RestIdle

\* lines 86-90 of the preview effect applied to rawId
Normalize ==
  /\ normalized = None
  /\ normalized' = Some([ cleanId |-> CleanId(rawId),
                          slug |-> NormalizedId(CleanId(rawId)) ])
  /\ UNCHANGED <<rawId, pageVars, submitVars, panelVars, serviceVars, restVars>>

NormNext == Normalize

SpecNormalize == NormInit /\ [][NormNext]_vars

\* ------------------------------------------- the projection, taken alone
TempSensor01 == <<"T","e","m","p","S","e","n","s","o","r","0","1">>

TemperatureProperty ==
  [ name |-> "temperature", type |-> "float", description |-> "", writable |-> TRUE,
    unit |-> "C", minimum |-> None, maximum |-> None ]

RenderIds == { <<"a", ":", "B">>, TempSensor01 }
RenderProperties ==
  { NewProperty, TemperatureProperty,
    [ name |-> "p", type |-> "string", description |-> "d", writable |-> FALSE,
      unit |-> "", minimum |-> None, maximum |-> Some(10) ] }
RenderRelationships ==
  { NewRelationship,
    [ name |-> "locatedIn", target_interface |-> "ems-iodt2-location", description |-> "d" ] }
RenderCommands == { [ name |-> "reset", description |-> "d" ] }

\* named drafts that the handlers above can produce, each with no preview
\* rendered yet
RenderDrafts ==
  { [ InitialFormData EXCEPT
        !.id = id, !.name = name, !.thing_type = thing_type,
        !.manufacturer = a[1], !.model = a[2],
        !.serial_number = a[3], !.firmware_version = a[4],
        !.properties = properties, !.relationships = relationships,
        !.commands = commands ] :
      id \in RenderIds, name \in NameInputs \ { "" }, thing_type \in ThingTypes,
      a \in [ 1..4 -> TextInputs ],
      properties \in SeqsUpTo(RenderProperties, MaxProps),
      relationships \in SeqsUpTo(RenderRelationships, MaxRels),
      commands \in SeqsUpTo(RenderCommands, MaxCmds) }

RenderInit ==
  /\ formData \in RenderDrafts
  /\ currentTenant \in { None, Some([ tenant_id |-> "acme" ]) }
  /\ interfaceYaml = <<>>
  /\ instanceYaml = <<>>
  /\ nEdits = 0
  /\ SubmitIdle
  /\ PanelIdle
  /\ NormIdle
  /\ ServiceIdle
  /\ RestIdle

\* the preview effect of the render that shows formData
RenderPreview ==
  /\ interfaceYaml = <<>>
  /\ formData.id # <<>> /\ formData.name # ""
  /\ YamlPreviewEffect(formData, currentTenant)
  /\ UNCHANGED <<formData, currentTenant, nEdits, submitVars, panelVars,
                 normVars, serviceVars, restVars>>

RenderNext == RenderPreview

SpecRender == RenderInit /\ [][RenderNext]_vars

\* ------------------------------------------------- auto-fill, taken alone
\* entries of propertyDetails / telemetryDetails / commandDetails of a summary,
\* each optional field absent or given
AutoFillPropertyDetails ==
  { [ name |-> "p", type |-> type, description |-> description,
      writable |-> writable, unit |-> unit ] :
      type \in { None, Some(""), Some("integer") },
      description \in { None, Some("d") },
      writable \in { None, Some(TRUE), Some(FALSE) },
      unit \in { None, Some("C") } }

AutoFillTelemetryDetails ==
  { [ name |-> "t", type |-> type, description |-> None,
      writable |-> writable, unit |-> None ] :
      type \in { None, Some("double") },
      writable \in { None, Some(TRUE), Some(FALSE) } }

AutoFillCommandDetails ==
  { [ name |-> "reset", description |-> description ] :
      description \in { None, Some("d") } }

\* lists a summary can carry: absent, empty, one entry, or two of one name
AutoFillSummaries ==
  { [ propertyNames |-> <<"p">>,
      propertyDetails |-> propertyDetails,
      telemetryDetails |-> telemetryDetails,
      commandDetails |-> commandDetails ] :
      propertyDetails \in
        { None, Some(<<>>) }
          \cup { Some(<<e>>) : e \in AutoFillPropertyDetails }
          \cup { Some(<<e, e>>) : e \in { x \in AutoFillPropertyDetails :
                                             x.type = None /\ x.unit = None } },
      telemetryDetails \in
        { None } \cup { Some(<<e>>) : e \in AutoFillTelemetryDetails },
      commandDetails \in
        { None } \cup { Some(<<e>>) : e \in AutoFillCommandDetails } }

\* the draft right after handleDTDLSelect bound an interface with a summary
AutoFillInit ==
  /\ \E iface \in DTDLInterfaces, summary \in AutoFillSummaries :
       /\ iface.dtmi = "dtmi:a;1"
       /\ formData = [ InitialFormData EXCEPT
                         !.dtdl_interface = Some(iface),
                         !.dtdl_interface_summary = Some(summary) ]
  /\ currentTenant = None
  /\ interfaceYaml = <<>>
  /\ instanceYaml = <<>>
  /\ nEdits = 0
  /\ SubmitIdle
  /\ PanelIdle
  /\ NormIdle
  /\ ServiceIdle
  /\ RestIdle

AutoFillNext == handleAutoFillFromDTDL

SpecAutoFill == AutoFillInit /\ [][AutoFillNext]_vars

\* ------------------------------------------ the location gateway, alone
\* what the HTTP client can come back with for one GET: a response with a
\* status (axios resolves for 2xx and rejects otherwise), no response at
\* all, or no response within the timeout of axiosInstance
LocationData ==
  { [ address |-> "Ankara", altitude |-> 938 ], [ address |-> "", altitude |-> 0 ] }

LocationReplies ==
  { [ kind |-> "response", status |-> 200, data |-> Some(d) ] : d \in LocationData }
    \cup { [ kind |-> "response", status |-> status, data |-> None ] :
             status \in { 400, 404, 500, 503 } }
    \cup { [ kind |-> "network", status |-> 0, data |-> None ],
           [ kind |-> "timeout", status |-> 0, data |-> None ] }

LocationServices == { "twinscale", "twin" }

LocationCalls ==
  { [ service |-> service, latitude |-> latitude, longitude |-> longitude,
      reply |-> reply ] :
      service \in LocationServices, latitude \in Latitudes,
      longitude \in Longitudes, reply \in LocationReplies }

\* await axiosInstance.get(...): TRUE when the promise resolves
AxiosResolves(reply) ==
  reply.kind = "response" /\ reply.status >= 200 /\ reply.status < 300

\* a lookup that hands the failure on, as the other gateway functions do
getLocationInfoThrowing(call) ==
  [ url |-> IF call.service = "twinscale" THEN "/v2/twinscale/location"
                                          ELSE "/v2/twin/location",
    params |-> [ lat |-> call.latitude, lon |-> call.longitude ],
    state |-> IF AxiosResolves(call.reply) THEN "fulfilled" ELSE "rejected",
    value |-> IF AxiosResolves(call.reply) THEN call.reply.data ELSE None ]

\* getLocationInfo(latitude, longitude) of TwinScaleService and of
\* TwinService: the request it makes and how the promise it returns settles;
\* value is response.data, or None for null
getLocationInfo(call) ==
  [ url |-> IF call.service = "twinscale" THEN "/v2/twinscale/location"
                                          ELSE "/v2/twin/location",
    params |-> [ lat |-> call.latitude, lon |-> call.longitude ],
    state |-> "fulfilled",
    value |-> IF AxiosResolves(call.reply) THEN call.reply.data ELSE None ]

LocationInit ==
  /\ PageInit
  /\ currentTenant = None
  /\ NormIdle
  /\ lookup \in { Some(call) : call \in LocationCalls }
  /\ located = None
  /\ RestIdle

\* the lookup is made and its promise settles
LookUp ==
  /\ lookup # None
  /\ located = None
  /\ located' = Some(getLocationInfo(lookup[1]))
  /\ UNCHANGED <<lookup, pageVars, submitVars, panelVars, normVars, restVars>>

LocationNext == LookUp

SpecLocation == LocationInit /\ [][LocationNext]_vars

\* ---------------------------------------------------- the draft's lists
\* the page driven through the add, remove and field controls of its three
\* lists alone
ListsNext ==
  \/ addProperty
  \/ \E index \in 1..Len(formData.properties) : removeProperty(index)
  \/ \E index \in 1..Len(formData.properties), field \in PropertyFields :
       \E value \in PropertyFieldInputs(field) : updateProperty(index, field, value)
  \/ addRelationship
  \/ \E index \in 1..Len(formData.relationships) : removeRelationship(index)
  \/ \E index \in 1..Len(formData.relationships), field \in RelationshipFields :
       \E value \in RelationshipFieldInputs(field) : updateRelationship(index, field, value)
  \/ addCommand
  \/ \E index \in 1..Len(formData.commands) : removeCommand(index)
  \/ \E index \in 1..Len(formData.commands), field \in CommandFields :
       \E value \in CommandFieldInputs(field) : updateCommand(index, field, value)

SpecLists == Init /\ [][ListsNext]_vars

\* ---------------------------------------------- the DTDL selection modal
MaxClicks == 4     \* clicks on the modal's controls explored

\* GET /v2/dtdl/interfaces/<dtmi>/summary: the summary the service holds for
\* an interface
SummaryOf(dtmi) == IF dtmi = "dtmi:a;1" THEN SummaryA ELSE SummaryB

Click ==
  /\ route = "create"
  /\ nClicks < MaxClicks
  /\ nClicks' = nClicks + 1

\* the select button of the page: setShowDTDLModal(true)
OpenDTDLModal ==
  /\ Click
  /\ ~showDTDLModal
  /\ showDTDLModal' = TRUE
  /\ UNCHANGED <<selectedInterface, interfaceSummary, loadingSummary, summaryRequests,
                 exceptModalVars>>

\* handleSelectInterface(iface) up to its await
handleSelectInterface(iface) ==
  /\ Click
  /\ showDTDLModal
  /\ selectedInterface' = Some(iface)
  /\ loadingSummary' = TRUE
  /\ summaryRequests' = Append(summaryRequests, iface.dtmi)
  /\ UNCHANGED <<showDTDLModal, interfaceSummary, exceptModalVars>>

\* request i resolves: setInterfaceSummary(summary), then the finally
SummaryArrived(i) ==
  /\ route = "create"
  /\ interfaceSummary' = Some(SummaryOf(summaryRequests[i]))
  /\ loadingSummary' = FALSE
  /\ summaryRequests' = RemoveAt(summaryRequests, i)
  /\ UNCHANGED <<showDTDLModal, selectedInterface, nClicks, exceptModalVars>>

\* request i rejects: console.error, then the finally
SummaryFailed(i) ==
  /\ route = "create"
  /\ loadingSummary' = FALSE
  /\ summaryRequests' = RemoveAt(summaryRequests, i)
  /\ UNCHANGED <<showDTDLModal, selectedInterface, interfaceSummary, nClicks,
                 exceptModalVars>>

\* what handleClose sets: the selection, the summary, and onClose()
ModalReset ==
  /\ selectedInterface' = None
  /\ interfaceSummary' = None
  /\ showDTDLModal' = FALSE
  /\ UNCHANGED <<loadingSummary, summaryRequests>>

\* the X and Cancel buttons
handleClose ==
  /\ Click
  /\ showDTDLModal
  /\ ModalReset
  /\ UNCHANGED exceptModalVars

\* the confirm button, disabled without a selection: onSelect(selectedInterface,
\* interfaceSummary), which is the page's handleDTDLSelect, then handleClose()
handleConfirmSelection ==
  /\ Click
  /\ showDTDLModal
  /\ selectedInterface # None
  /\ CommitPage([ formData EXCEPT !.dtdl_interface = selectedInterface,
                                  !.dtdl_interface_summary = interfaceSummary ],
                TRUE,
                << Toast("default", "common.success",
                         <<"dtdl.interfaceSelected", selectedInterface[1].displayName>>) >>)
  /\ ModalReset
  /\ UNCHANGED besideModalVars

ModalInit ==
  /\ ExceptModalIdle
  /\ ModalIdle

ModalNext ==
  \/ OpenDTDLModal
  \/ \E iface \in DTDLInterfaces : handleSelectInterface(iface)
  \/ \E i \in 1..Len(summaryRequests) : SummaryArrived(i)
  \/ \E i \in 1..Len(summaryRequests) : SummaryFailed(i)
  \/ handleClose
  \/ handleConfirmSelection

SpecModal == ModalInit /\ [][ModalNext]_vars

\* ------------------------------------------- the list and details pages
MaxThingSteps == 4   \* clicks on the list and details pages explored

ThingNames == { "pump", "valve" }
DeleteErrors == { "Network error: Unable to connect to Twin service", "Error 500: " }

ThingRequest(kind, name, page) ==
  [ kind |-> kind, name |-> name, page |-> page.kind, mount |-> page.mount ]

\* the page that sent the request is still the mounted one
StillMounted(request) ==
  request.page = thingsPage.kind /\ request.mount = thingsPage.mount

ListPage(mount) == [ kind |-> "list", name |-> "", mount |-> mount ]
DetailsPage(name, mount) == [ kind |-> "details", name |-> name, mount |-> mount ]

ThingStep ==
  /\ nThingSteps < MaxThingSteps
  /\ nThingSteps' = nThingSteps + 1

\* the route /things: TwinThingList mounts with [] and isLoading, and its
\* effect calls loadInterfaces()
MountList(requests) ==
  /\ thingsPage' = ListPage(thingsPage.mount + 1)
  /\ interfaces' = {}
  /\ thingsLoading' = TRUE
  /\ interfaceData' = None
  /\ thingRequests' = Append(requests, ThingRequest("list", "", ListPage(thingsPage.mount + 1)))

OpenThings ==
  /\ thingsPage.kind = "none"
  /\ MountList(thingRequests)
  /\ UNCHANGED <<serverThings, thingsToasts, nThingSteps, exceptThingsVars>>

\* listInterfaces resolves: setInterfaces(data.interfaces || []), finally
ListArrived(i) ==
  /\ thingRequests[i].kind = "list"
  /\ thingRequests' = RemoveAt(thingRequests, i)
  /\ IF StillMounted(thingRequests[i])
       THEN interfaces' = serverThings /\ thingsLoading' = FALSE
       ELSE UNCHANGED <<interfaces, thingsLoading>>
  /\ UNCHANGED <<thingsPage, interfaceData, serverThings, thingsToasts, nThingSteps,
                 exceptThingsVars>>

\* listInterfaces rejects: a destructive toast, finally
ListFailed(i, message) ==
  /\ thingRequests[i].kind = "list"
  /\ thingRequests' = RemoveAt(thingRequests, i)
  /\ thingsToasts' = Append(thingsToasts, Toast("destructive", "common.error", <<message>>))
  /\ IF StillMounted(thingRequests[i])
       THEN thingsLoading' = FALSE
       ELSE UNCHANGED thingsLoading
  /\ UNCHANGED <<thingsPage, interfaces, interfaceData, serverThings, nThingSteps,
                 exceptThingsVars>>

\* the View link of a card: TwinThingDetails mounts and loads the details
ViewThing(name) ==
  /\ ThingStep
  /\ thingsPage.kind = "list" /\ ~thingsLoading /\ name \in interfaces
  /\ thingsPage' = DetailsPage(name, thingsPage.mount + 1)
  /\ interfaces' = {}
  /\ thingsLoading' = TRUE
  /\ interfaceData' = None
  /\ thingRequests' = Append(thingRequests,
                        ThingRequest("details", name, DetailsPage(name, thingsPage.mount + 1)))
  /\ UNCHANGED <<serverThings, thingsToasts, exceptThingsVars>>

DetailsArrived(i) ==
  /\ thingRequests[i].kind = "details"
  /\ thingRequests[i].name \in serverThings
  /\ thingRequests' = RemoveAt(thingRequests, i)
  /\ IF StillMounted(thingRequests[i])
       THEN interfaceData' = Some(thingRequests[i].name) /\ thingsLoading' = FALSE
       ELSE UNCHANGED <<interfaceData, thingsLoading>>
  /\ UNCHANGED <<thingsPage, interfaces, serverThings, thingsToasts, nThingSteps,
                 exceptThingsVars>>

DetailsFailed(i, message) ==
  /\ thingRequests[i].kind = "details"
  /\ thingRequests' = RemoveAt(thingRequests, i)
  /\ thingsToasts' = Append(thingsToasts, Toast("destructive", "Error", <<message>>))
  /\ IF StillMounted(thingRequests[i])
       THEN thingsLoading' = FALSE
       ELSE UNCHANGED thingsLoading
  /\ UNCHANGED <<thingsPage, interfaces, interfaceData, serverThings, nThingSteps,
                 exceptThingsVars>>

\* the delete buttons the mounted page shows: one per listed card, or the
\* one of the loaded details page
DeleteButtons ==
  IF thingsLoading THEN {}
  ELSE IF thingsPage.kind = "list" THEN interfaces
  ELSE IF thingsPage.kind = "details" /\ interfaceData # None THEN { thingsPage.name }
  ELSE {}

\* a handleDelete that does not ask
handleDeleteUnasked(interfaceName, confirmed) ==
  /\ ThingStep
  /\ interfaceName \in DeleteButtons
  /\ thingRequests' = Append(thingRequests, ThingRequest("delete", interfaceName, thingsPage))
  /\ UNCHANGED <<thingsPage, interfaces, thingsLoading, interfaceData, serverThings,
                 thingsToasts, exceptThingsVars>>

\* handleDelete of either page up to its await; confirmed is what confirm()
\* returned
handleDelete(interfaceName, confirmed) ==
  /\ ThingStep
  /\ interfaceName \in DeleteButtons
  /\ IF confirmed
       THEN thingRequests' = Append(thingRequests,
                               ThingRequest("delete", interfaceName, thingsPage))
       ELSE UNCHANGED thingRequests
  /\ UNCHANGED <<thingsPage, interfaces, thingsLoading, interfaceData, serverThings,
                 thingsToasts, exceptThingsVars>>

\* deleteInterface resolves.  List page: a toast, then loadInterfaces().
\* Details page: a toast, then navigate('/things').
DeleteSucceeded(i) ==
  /\ thingRequests[i].kind = "delete"
  /\ thingRequests[i].name \in serverThings
  /\ serverThings' = serverThings \ { thingRequests[i].name }
  /\ IF thingRequests[i].page = "list"
       THEN /\ thingsToasts' = Append(thingsToasts,
                                 Toast("default", "common.success", <<"things.deleteSuccess">>))
            /\ thingRequests' = Append(RemoveAt(thingRequests, i),
                                   [ thingRequests[i] EXCEPT !.kind = "list", !.name = "" ])
            /\ IF StillMounted(thingRequests[i])
                 THEN thingsLoading' = TRUE
                 ELSE UNCHANGED thingsLoading
            /\ UNCHANGED <<thingsPage, interfaces, interfaceData>>
       ELSE /\ thingsToasts' = Append(thingsToasts,
                                 Toast("default", "Success", <<"Interface deleted successfully">>))
            /\ IF thingsPage.kind = "list"
                 THEN /\ thingRequests' = RemoveAt(thingRequests, i)
                      /\ UNCHANGED <<thingsPage, interfaces, thingsLoading, interfaceData>>
                 ELSE MountList(RemoveAt(thingRequests, i))
  /\ UNCHANGED <<nThingSteps, exceptThingsVars>>

\* deleteInterface rejects with Error(message): a destructive toast
DeleteFailed(i, message) ==
  /\ thingRequests[i].kind = "delete"
  /\ thingRequests' = RemoveAt(thingRequests, i)
  /\ thingsToasts' = Append(thingsToasts,
                       Toast("destructive",
                             IF thingRequests[i].page = "list" THEN "common.error"
                                                               ELSE "Delete Error",
                             <<message>>))
  /\ UNCHANGED <<thingsPage, interfaces, thingsLoading, interfaceData, serverThings,
                 nThingSteps, exceptThingsVars>>

ThingsInit ==
  /\ ExceptThingsIdle
  /\ ThingsIdle

ThingsNext ==
  \/ OpenThings
  \/ \E i \in 1..Len(thingRequests) : ListArrived(i)
  \/ \E i \in 1..Len(thingRequests), message \in DeleteErrors : ListFailed(i, message)
  \/ \E name \in ThingNames : ViewThing(name)
  \/ \E i \in 1..Len(thingRequests) : DetailsArrived(i)
  \/ \E i \in 1..Len(thingRequests), message \in DeleteErrors : DetailsFailed(i, message)
  \/ \E name \in ThingNames, confirmed \in BOOLEAN : handleDelete(name, confirmed)
  \/ \E i \in 1..Len(thingRequests) : DeleteSucceeded(i)
  \/ \E i \in 1..Len(thingRequests), message \in DeleteErrors : DeleteFailed(i, message)

SpecThings == ThingsInit /\ [][ThingsNext]_vars

\* ------------------------------------------------------- the search page
MaxSearchSteps == 4   \* clicks on the search page explored

SearchModes == { "standard", "sparql", "value" }

\* the type of the two sample saved searches: they carry none
SavedSearches == << "", "" >>

SearchStep ==
  /\ nSearchSteps < MaxSearchSteps
  /\ nSearchSteps' = nSearchSteps + 1

\* onValueChange of the mode select
SelectSearchMode(value) ==
  /\ SearchStep
  /\ searchMode' = value
  /\ sparqlMode' = (value = "sparql")
  /\ UNCHANGED <<isSearching, searchHistory, searchRequests, lastSearch, exceptSearchVars>>

\* the Use button of a saved search or of a history entry of the given type
UseSearch(type) ==
  /\ SearchStep
  /\ sparqlMode' = (type = "sparql")
  /\ UNCHANGED <<searchMode, isSearching, searchHistory, searchRequests, lastSearch,
                 exceptSearchVars>>

UseSavedSearch(i) == UseSearch(SavedSearches[i])

UseHistoryEntry(i) == UseSearch(searchHistory[i])

\* the panel the page shows
DisplayedPanel ==
  IF searchMode = "standard" THEN "standard"
  ELSE IF searchMode = "value" THEN "value"
  ELSE "sparql"

\* performSearch up to its await, from the button of the standard panel or
\* of the SPARQL editor
performSearch ==
  /\ SearchStep
  /\ DisplayedPanel \in { "standard", "sparql" }
  /\ ~isSearching
  /\ isSearching' = TRUE
  /\ searchRequests' = Append(searchRequests, IF sparqlMode THEN "sparql" ELSE "standard")
  /\ lastSearch' = Some([ panel |-> DisplayedPanel,
                          query |-> IF sparqlMode THEN "sparql" ELSE "standard" ])
  /\ UNCHANGED <<searchMode, sparqlMode, searchHistory, exceptSearchVars>>

\* handleValueSearch up to its await, from the button of the value panel
handleValueSearch ==
  /\ SearchStep
  /\ DisplayedPanel = "value"
  /\ ~isSearching
  /\ isSearching' = TRUE
  /\ searchRequests' = Append(searchRequests, "value")
  /\ lastSearch' = Some([ panel |-> DisplayedPanel, query |-> "value" ])
  /\ UNCHANGED <<searchMode, sparqlMode, searchHistory, exceptSearchVars>>

\* [newSearch, ...prev.slice(0, 9)]
WithNewSearch(history, type) ==
  <<type>> \o SubSeq(history, 1, IF Len(history) < 9 THEN Len(history) ELSE 9)

\* a search resolves: the results, the history entry, the finally
SearchArrived(i) ==
  /\ searchRequests' = RemoveAt(searchRequests, i)
  /\ searchHistory' = WithNewSearch(searchHistory, searchRequests[i])
  /\ isSearching' = FALSE
  /\ UNCHANGED <<searchMode, sparqlMode, lastSearch, nSearchSteps, exceptSearchVars>>

\* a search rejects: the error, the finally
SearchFailed(i) ==
  /\ searchRequests' = RemoveAt(searchRequests, i)
  /\ isSearching' = FALSE
  /\ UNCHANGED <<searchMode, sparqlMode, searchHistory, lastSearch, nSearchSteps,
                 exceptSearchVars>>

SearchInit ==
  /\ ExceptSearchIdle
  /\ SearchIdle

SearchNext ==
  \/ \E value \in SearchModes : SelectSearchMode(value)
  \/ \E i \in 1..Len(SavedSearches) : UseSavedSearch(i)
  \/ \E i \in 1..Len(searchHistory) : UseHistoryEntry(i)
  \/ performSearch
  \/ handleValueSearch
  \/ \E i \in 1..Len(searchRequests) : SearchArrived(i)
  \/ \E i \in 1..Len(searchRequests) : SearchFailed(i)

SpecSearch == SearchInit /\ [][SearchNext]_vars

\* ----------------------------------------------------- the map component
MaxMapSteps == 5   \* map errors and style choices explored

StyleUrl(value) == [ kind |-> "url", value |-> value ]

\* the default of the mapStyle prop
PrimaryStyle == StyleUrl("positron")

\* fallbackStyles: two style URLs, then an empty style object
fallbackStyles ==
  << StyleUrl("demotiles"), StyleUrl("voyager"),
     [ kind |-> "object", value |-> "version 8, no sources, no layers" ] >>

\* the styles of the style switcher
AvailableStyles == { PrimaryStyle, StyleUrl("voyager"), StyleUrl("dark") }

MapErrors == { "style", "tile" }

\* fallbackStyles.findIndex(s => typeof s === 'string' ? s === currentMapStyle
\* : false), counted from 1; 0 when there is none
FallbackIndex(style) ==
  LET found == { i \in 1..Len(fallbackStyles) :
                   fallbackStyles[i].kind = "url" /\ fallbackStyles[i] = style }
  IN  IF found = {} THEN 0 ELSE CHOOSE i \in found : \A j \in found : i <= j

MapStep ==
  /\ nMapSteps < MaxMapSteps
  /\ nMapSteps' = nMapSteps + 1

\* onError of the map: handleMapError(error)
handleMapError(error) ==
  /\ MapStep
  /\ mapErrorLog' = Append(mapErrorLog, error)
  /\ LET currentIndex == FallbackIndex(currentMapStyle)
     IN  IF currentIndex < Len(fallbackStyles)
           THEN /\ currentMapStyle' = fallbackStyles[currentIndex + 1]
                /\ mapError' = None
                /\ fallbacksTried' = Append(fallbacksTried, currentIndex + 1)
           ELSE /\ mapError' = Some(error)
                /\ UNCHANGED <<currentMapStyle, fallbacksTried>>
  /\ UNCHANGED exceptMapVars

\* the style switcher: handleStyleChange(newStyleUrl)
handleStyleChange(newStyleUrl) ==
  /\ MapStep
  /\ currentMapStyle' = newStyleUrl
  /\ mapError' = None
  /\ fallbacksTried' = <<>>
  /\ UNCHANGED <<mapErrorLog, exceptMapVars>>

MapInit ==
  /\ ExceptMapIdle
  /\ MapIdle

MapNext ==
  \/ \E error \in MapErrors : handleMapError(error)
  \/ \E newStyleUrl \in AvailableStyles : handleStyleChange(newStyleUrl)

SpecMap == MapInit /\ [][MapNext]_vars

\* ---------------------------------------------------- the location picker
MaxPickerSteps == 4   \* clicks on the picker explored

\* four decimals of a coordinate, with their leading zeros
FractionText(n) ==
  LET d == <<"0", "1", "2", "3", "4", "5", "6", "7", "8", "9">>
  IN  << d[((n \div 1000) % 10) + 1], d[((n \div 100) % 10) + 1],
         d[((n \div 10) % 10) + 1], d[(n % 10) + 1] >>

\* lat.toString() of a coordinate given in units of 1e-4 degree whose fourth
\* decimal is not 0: 399334 is "39.9334"
CoordToString(n) == NumText(n \div 10000) \o <<".">> \o FractionText(n % 10000)

\* lat.toFixed(6)
ToFixed6(n) == CoordToString(n) \o <<"0", "0">>

RECURSIVE DigitsValue(_)
DigitsValue(text) ==
  IF text = <<>> THEN 0
  ELSE DigitsValue(SubSeq(text, 1, Len(text) - 1)) * 10
       + (CHOOSE v \in 0..9 :
            <<"0", "1", "2", "3", "4", "5", "6", "7", "8", "9">>[v + 1] = text[Len(text)])

\* parseFloat of such a text, back in units of 1e-4 degree
ParseFloat(text) ==
  LET dot == CHOOSE i \in 1..Len(text) : text[i] = "."
  IN  DigitsValue(SubSeq(text, 1, dot - 1)) * 10000
      + DigitsValue(SubSeq(text, dot + 1, dot + 4))

\* what the reverse geocoder and the elevation service can answer
DisplayNames == { None, Some("Ankara") }
Elevations == { None, Some(<<"9", "3", "8">>) }

PickerStep ==
  /\ nPickerSteps < MaxPickerSteps
  /\ nPickerSteps' = nPickerSteps + 1

\* the effect on [location?.latitude, location?.longitude]
LocationEffect(next) ==
  IF next # None /\ next[1].latitude # <<>> /\ next[1].longitude # <<>>
    THEN /\ marker' = [ latitude |-> Some(ParseFloat(next[1].latitude)),
                        longitude |-> Some(ParseFloat(next[1].longitude)) ]
         /\ viewport' = [ viewport EXCEPT !.latitude = ParseFloat(next[1].latitude),
                                          !.longitude = ParseFloat(next[1].longitude) ]
    ELSE UNCHANGED <<marker, viewport>>

\* the button of the card: setIsDialogOpen(true), and the effect on
\* [isDialogOpen] that resets tempLocation
OpenPicker ==
  /\ PickerStep
  /\ ~isDialogOpen
  /\ isDialogOpen' = TRUE
  /\ tempLocation' = None
  /\ lastClick' = None
  /\ UNCHANGED <<location, marker, viewport, pickerLookups, exceptPickerVars>>

\* the dialog closed by Escape or a click outside: onOpenChange(false)
DismissPicker ==
  /\ PickerStep
  /\ isDialogOpen
  /\ isDialogOpen' = FALSE
  /\ UNCHANGED <<location, tempLocation, marker, viewport, pickerLookups, lastClick,
                 exceptPickerVars>>

\* handleMapClick(event) of the picker up to its first await
PickerMapClick(lat, lng) ==
  /\ PickerStep
  /\ isDialogOpen
  /\ marker' = [ latitude |-> Some(lat), longitude |-> Some(lng) ]
  /\ lastClick' = Some([ lat |-> lat, lng |-> lng ])
  /\ pickerLookups' = Append(pickerLookups,
                        [ lat |-> lat, lng |-> lng, stage |-> "geocode", address |-> <<>> ])
  /\ UNCHANGED <<location, isDialogOpen, tempLocation, viewport, exceptPickerVars>>

NewLocation(entry, altitude, address) ==
  [ latitude |-> CoordToString(entry.lat), longitude |-> CoordToString(entry.lng),
    altitude |-> altitude, address |-> address ]

CoordinatesText(entry) == ToFixed6(entry.lat) \o <<", ">> \o ToFixed6(entry.lng)

\* the reverse geocoder answered: the address, then the elevation request
GeocodeArrived(i, display_name) ==
  /\ pickerLookups[i].stage = "geocode"
  /\ pickerLookups' =
       [ pickerLookups EXCEPT ![i] =
           [ @ EXCEPT !.stage = "elevation",
                      !.address = IF display_name # None /\ display_name # Some("")
                                    THEN <<display_name[1]>>
                                  ELSE CoordinatesText(pickerLookups[i]) ] ]
  /\ UNCHANGED <<location, isDialogOpen, tempLocation, marker, viewport, lastClick,
                 nPickerSteps, exceptPickerVars>>

\* setTempLocation(newLocation) at the end of lookup i
SetTempLocation(i, newLocation) ==
  /\ tempLocation' = Some(newLocation)
  /\ pickerLookups' = RemoveAt(pickerLookups, i)
  /\ UNCHANGED <<location, isDialogOpen, marker, viewport, lastClick, nPickerSteps,
                 exceptPickerVars>>

\* the reverse geocoder failed: the outer catch
GeocodeFailed(i) ==
  /\ pickerLookups[i].stage = "geocode"
  /\ SetTempLocation(i, NewLocation(pickerLookups[i], <<>>, CoordinatesText(pickerLookups[i])))

\* the elevation service answered, with or without a result
ElevationArrived(i, elevation) ==
  /\ pickerLookups[i].stage = "elevation"
  /\ SetTempLocation(i, NewLocation(pickerLookups[i],
                                    IF elevation = None THEN <<>> ELSE elevation[1],
                                    pickerLookups[i].address))

\* the elevation service failed: the inner catch
ElevationFailed(i) ==
  /\ pickerLookups[i].stage = "elevation"
  /\ SetTempLocation(i, NewLocation(pickerLookups[i], <<>>, pickerLookups[i].address))

\* the confirm button, disabled without a tempLocation: onChange(tempLocation)
\* makes it the parent's location, and the effect on the location runs
handleConfirm ==
  /\ PickerStep
  /\ isDialogOpen
  /\ tempLocation # None
  /\ location' = tempLocation
  /\ isDialogOpen' = FALSE
  /\ LocationEffect(tempLocation)
  /\ UNCHANGED <<tempLocation, pickerLookups, lastClick, exceptPickerVars>>

handleCancel ==
  /\ PickerStep
  /\ isDialogOpen
  /\ marker' = IF location # None /\ location[1].latitude # <<>>
                  /\ location[1].longitude # <<>>
                 THEN [ latitude |-> Some(ParseFloat(location[1].latitude)),
                        longitude |-> Some(ParseFloat(location[1].longitude)) ]
                 ELSE [ latitude |-> None, longitude |-> None ]
  /\ tempLocation' = None
  /\ isDialogOpen' = FALSE
  /\ UNCHANGED <<location, viewport, pickerLookups, lastClick, exceptPickerVars>>

PickerInit ==
  /\ ExceptPickerIdle
  /\ PickerIdle

PickerNext ==
  \/ OpenPicker
  \/ DismissPicker
  \/ \E lat \in Latitudes, lng \in Longitudes : PickerMapClick(lat, lng)
  \/ \E i \in 1..Len(pickerLookups), display_name \in DisplayNames :
       GeocodeArrived(i, display_name)
  \/ \E i \in 1..Len(pickerLookups) : GeocodeFailed(i)
  \/ \E i \in 1..Len(pickerLookups), elevation \in Elevations : ElevationArrived(i, elevation)
  \/ \E i \in 1..Len(pickerLookups) : ElevationFailed(i)
  \/ handleConfirm
  \/ handleCancel

SpecPicker == PickerInit /\ [][PickerNext]_vars

\* ------------------------------------------------- the gateway client
MaxCalls == 3      \* gateway steps explored: calls and writes to local storage

\* if (x) for an optional string x
Truthy(x) == x # None /\ x # Some("")

\* values of the local storage key selectedTenant
StoredTenantIds == { None, Some("acme"), Some("globex") }

\* values of the local storage key currentTenant: a text that JSON.parse
\* accepts or not, and the tenant_id of what it parses to
StoredCurrentTenants ==
  { None,
    Some([ parses |-> TRUE, tenant_id |-> "acme" ]),
    Some([ parses |-> TRUE, tenant_id |-> "" ]),
    Some([ parses |-> FALSE, tenant_id |-> "" ]) }

\* the functions of TwinScaleService and TwinService that call handleError
ThingGatewayFunctions ==
  { [ service |-> service, name |-> f[1], method |-> f[2], path |-> f[3],
      responseType |-> f[4] ] :
      service \in { "twinscale", "twin" },
      f \in { <<"create", "post", "/create", "json">>,
              <<"listInterfaces", "get", "/rdf/interfaces", "json">>,
              <<"listInstances", "get", "/rdf/instances", "json">>,
              <<"getInterfaceDetails", "get", "/rdf/interfaces/${interfaceName}", "json">>,
              <<"exportAsZip", "get", "/export/${interfaceName}", "blob">>,
              <<"deleteInterface", "delete", "/rdf/interfaces/${interfaceName}", "json">>,
              <<"executeSparqlQuery", "post", "/rdf/query", "json">>,
              <<"validateYaml", "post", "/validate", "json">> } }

SearchFunction ==
  [ service |-> "search", name |-> "searchByPropertyValue", method |-> "get",
    path |-> "/v2/fuseki/search/property", responseType |-> "json" ]

\* what the HTTP client can come back with: a response (status, statusText
\* and a body with or without detail and message), no response (network
\* down, or the 10 s timeout), or an error raised before anything was sent
GatewayReplies ==
  { [ kind |-> "response", status |-> 200, statusText |-> "OK", data |-> Some("data"),
      detail |-> None, message |-> None, errorMessage |-> "" ] }
    \cup { [ kind |-> "response", status |-> status[1], statusText |-> status[2],
             data |-> None, detail |-> detail, message |-> message,
             errorMessage |-> "Request failed" ] :
             status \in { <<404, "Not Found">>, <<500, "Internal Server Error">> },
             detail \in { None, Some("Thing not found") },
             message \in { None, Some("failed") } }
    \cup { [ kind |-> kind, status |-> 0, statusText |-> "", data |-> None,
             detail |-> None, message |-> None, errorMessage |-> errorMessage ] :
             kind \in { "network", "timeout" },
             errorMessage \in { "Network Error" } }
    \cup { [ kind |-> "setup", status |-> 0, statusText |-> "", data |-> None,
             detail |-> None, message |-> None, errorMessage |-> "canceled" ] }

\* getTenantHeaders(): { "X-Tenant-ID": selectedTenant } or {}
getTenantHeaders(storage) ==
  [ XTenantID |-> IF Truthy(storage.selectedTenant) THEN storage.selectedTenant ELSE None ]

\* an interceptor that keeps a header the caller has set
RequestInterceptorKeeping(config, storage) ==
  IF Truthy(storage.selectedTenant) /\ config.headers.XTenantID = None
    THEN [ config EXCEPT !.headers.XTenantID = storage.selectedTenant ]
    ELSE config

\* the request interceptor of axiosInstance
RequestInterceptor(config, storage) ==
  IF Truthy(storage.selectedTenant)
    THEN [ config EXCEPT !.headers.XTenantID = storage.selectedTenant ]
    ELSE config

\* error.response.data[field]: a body received as a Blob has no such field
BodyField(fn, reply, field) ==
  IF fn.responseType = "blob" THEN None ELSE reply[field]

\* handleError(error): the message of the Error it throws, as text pieces
handleError(fn, reply) ==
  IF reply.kind = "response"
    THEN IF Truthy(BodyField(fn, reply, "detail")) THEN Some(<<reply.detail[1]>>)
         ELSE IF Truthy(BodyField(fn, reply, "message")) THEN Some(<<reply.message[1]>>)
         ELSE Some(<<"Error ">> \o NumText(reply.status) \o <<": ", reply.statusText>>)
  ELSE IF reply.kind \in { "network", "timeout" }
    THEN Some(<<"Network error: Unable to connect to ",
                IF fn.service = "twinscale" THEN "TwinScale" ELSE "Twin", " service">>)
  ELSE Some(<<IF reply.errorMessage # "" THEN reply.errorMessage
              ELSE "An unexpected error occurred">>)

\* one call of a function of ThingGatewayFunctions: the request it hands to
\* axiosInstance and how its promise settles (message: None when no Error
\* is thrown)
ThingGatewayCall(fn, reply, storage) ==
  LET config == [ method |-> fn.method,
                  url |-> <<"/v2/", fn.service, fn.path>>,
                  headers |-> getTenantHeaders(storage) ]
      thrown == IF AxiosResolves(reply) THEN None ELSE handleError(fn, reply)
  IN  [ requests |-> << RequestInterceptor(config, storage) >>,
        state |-> IF AxiosResolves(reply) \/ thrown = None THEN "fulfilled" ELSE "rejected",
        value |-> IF AxiosResolves(reply) THEN reply.data ELSE None,
        message |-> thrown ]

\* searchByPropertyValue(property, operator, value, tenantId): the headers it
\* builds, the request, and the original error thrown again on failure
searchByPropertyValue(tenantId, reply, storage) ==
  LET stored == storage.currentTenant
      headers ==
        IF Truthy(tenantId) THEN [ XTenantID |-> tenantId ]
        ELSE IF stored # None /\ stored[1].parses /\ stored[1].tenant_id # ""
          THEN [ XTenantID |-> Some(stored[1].tenant_id) ]
        ELSE [ XTenantID |-> None ]
      config == [ method |-> "get", url |-> <<SearchFunction.path>>, headers |-> headers ]
  IN  [ requests |-> << RequestInterceptor(config, storage) >>,
        state |-> IF AxiosResolves(reply) THEN "fulfilled" ELSE "rejected",
        value |-> IF AxiosResolves(reply) THEN reply.data ELSE None,
        message |-> IF AxiosResolves(reply) THEN None ELSE Some(<<reply.errorMessage>>) ]

\* localStorage.setItem / removeItem of one of the two tenant keys
SetItem(key, value) ==
  /\ nCalls < MaxCalls
  /\ nCalls' = nCalls + 1
  /\ localStorage[key] # value
  /\ localStorage' = [ localStorage EXCEPT ![key] = value ]
  /\ UNCHANGED <<gatewayCall, sent, settled, exceptGatewayVars>>

\* the outcome of a call becomes the outcome of the call made last
Settle(fn, tenantId, reply, outcome) ==
  /\ nCalls < MaxCalls
  /\ nCalls' = nCalls + 1
  /\ gatewayCall' = Some([ fn |-> fn, tenantId |-> tenantId, reply |-> reply ])
  /\ sent' = outcome.requests
  /\ settled' = Some([ state |-> outcome.state, value |-> outcome.value,
                       message |-> outcome.message ])
  /\ UNCHANGED <<localStorage, exceptGatewayVars>>

CallThingGateway(fn, reply) ==
  Settle(fn, None, reply, ThingGatewayCall(fn, reply, localStorage))

CallSearch(tenantId, reply) ==
  Settle(SearchFunction, tenantId, reply, searchByPropertyValue(tenantId, reply, localStorage))

GatewayInit ==
  /\ ExceptGatewayIdle
  /\ GatewayIdle

GatewayNext ==
  \/ \E value \in StoredTenantIds : SetItem("selectedTenant", value)
  \/ \E value \in StoredCurrentTenants : SetItem("currentTenant", value)
  \/ \E fn \in ThingGatewayFunctions, reply \in GatewayReplies : CallThingGateway(fn, reply)
  \/ \E tenantId \in StoredTenantIds, reply \in GatewayReplies : CallSearch(tenantId, reply)

SpecGateway == GatewayInit /\ [][GatewayNext]_vars

\* ------------------------------------------------- reading a YAML document
\* index of the first line equal to `line`, 0 when there is none
LineIndex(doc, line) ==
  IF \E i \in 1..Len(doc) : doc[i] = line
    THEN CHOOSE i \in 1..Len(doc) : doc[i] = line /\ \A j \in 1..(i-1) : doc[j] # line
    ELSE 0

HasLine(doc, line) == LineIndex(doc, line) # 0

\* the lines strictly between two key lines
Between(doc, from, to) == SubSeq(doc, LineIndex(doc, from) + 1, LineIndex(doc, to) - 1)

\* the lines after a key line, to the end of the document
After(doc, from) == SubSeq(doc, LineIndex(doc, from) + 1, Len(doc))

HasKey(lines, key) == \E i \in 1..Len(lines) : lines[i][1] = key

\* the text after `key` on the first line of `lines` that starts with it
KeyValue(lines, key) ==
  Tail(lines[CHOOSE i \in 1..Len(lines) :
               lines[i][1] = key /\ \A j \in 1..(i-1) : lines[j][1] # key])

MetadataBlock(doc) == Between(doc, <<"metadata:">>, <<"spec:">>)
SpecBlock(doc) == After(doc, <<"spec:">>)

InterfaceLabelsBlock(doc) ==
  IF HasLine(doc, <<"  annotations:">>)
    THEN Between(doc, <<"  labels:">>, <<"  annotations:">>)
    ELSE Between(doc, <<"  labels:">>, <<"spec:">>)
InstanceLabelsBlock(doc) == Between(doc, <<"  labels:">>, <<"spec:">>)

PropertiesBlock(doc) == Between(doc, <<"  properties:">>, <<"  relationships:">>)
RelationshipsBlock(doc) == Between(doc, <<"  relationships:">>, <<"  commands:">>)
CommandsBlock(doc) == After(doc, <<"  commands:">>)

PreviewShown == interfaceYaml # <<>> \/ instanceYaml # <<>>

\* "ems-iodt2-" followed by the slug of an id
CanonicalName(id) == <<"ems-iodt2-">> \o NormalizedId(CleanId(id))

\* ------------------------------------------------------------------ claims

\* C1: in every state where a YAML preview is shown, the Interface's
\* metadata.name and spec.name and the Instance's metadata.name, spec.name and
\* spec.interface all equal "ems-iodt2-" followed by the slug of the current
\* draft id.
C1_NamesAreCanonicalNameOfCurrentId ==
  PreviewShown =>
    /\ KeyValue(MetadataBlock(interfaceYaml), "  name: ") = CanonicalName(formData.id)
    /\ KeyValue(SpecBlock(interfaceYaml), "  name: ") = CanonicalName(formData.id)
    /\ KeyValue(MetadataBlock(instanceYaml), "  name: ") = CanonicalName(formData.id)
    /\ KeyValue(SpecBlock(instanceYaml), "  name: ") = CanonicalName(formData.id)
    /\ KeyValue(SpecBlock(instanceYaml), "  interface: ") = CanonicalName(formData.id)

\* everything after the first colon of an id that has one
AfterFirstColon(id) == SubSeq(id, IndexOf(id, ":") + 1, Len(id))

\* C2: for every raw id, cleanId is the raw id unchanged when it has no colon,
\* and everything after the first colon when it has one (for an id with
\* several colons the whole remainder after the first colon).
C2_CleanIdIsRemainderAfterFirstColon ==
  normalized # None =>
    normalized[1].cleanId =
      IF Includes(rawId, ":") THEN AfterFirstColon(rawId) ELSE rawId

\* C3: for every raw id, the slug is the lowercased cleanId with each character
\* outside [a-z0-9-] replaced by '-': only characters of [a-z0-9-], as many
\* characters as the lowercased cleanId, "!!!" gives "---", and the empty
\* input gives the empty slug.
C3_SlugReplacesAndKeepsLength ==
  normalized # None =>
    LET lowered == ToLowerCase(normalized[1].cleanId)
        slug == normalized[1].slug
    IN  /\ Len(slug) = Len(lowered)
        /\ \A i \in 1..Len(slug) :
             /\ slug[i] \in SlugChars
             /\ lowered[i] \in SlugChars => slug[i] = lowered[i]
             /\ lowered[i] \notin SlugChars => slug[i] = "-"
        /\ rawId = <<>> => slug = <<>>
        /\ rawId = <<"!", "!", "!">> => slug = <<"-", "-", "-">>

\* C3 witness: an id made only of disallowed characters has been normalized
C3_Witness == normalized # None /\ rawId = <<"!", "!", "!">>

\* the labels the claim describes, for the current draft and tenant
ExpectedLabels ==
  (IF currentTenant # None
     THEN << <<"    tenant: ", currentTenant[1].tenant_id>> >>
     ELSE <<>>)
    \o << <<"    thing-type: ", formData.thing_type>> >>

\* C4: the labels block of the Interface and of the Instance YAML is the line
\* "tenant: <tenantId>" exactly when a tenant is selected, followed by the line
\* "thing-type: <thing_type>"; the two blocks have identical content.
C4_LabelsBlocks ==
  PreviewShown =>
    /\ InterfaceLabelsBlock(interfaceYaml) = ExpectedLabels
    /\ InstanceLabelsBlock(instanceYaml) = ExpectedLabels
    /\ InterfaceLabelsBlock(interfaceYaml) = InstanceLabelsBlock(instanceYaml)

\* C4 witness: a preview rendered while a tenant is selected
C4_Witness ==
  /\ PreviewShown
  /\ currentTenant # None
  /\ formData.thing_type = "component"

\* the annotation lines the claim describes: the non-empty fields, quoted, in
\* the order manufacturer, model, serialNumber, firmwareVersion
ExpectedAnnotations ==
  LET pairs == << <<"    manufacturer: ", formData.manufacturer>>,
                  <<"    model: ", formData.model>>,
                  <<"    serialNumber: ", formData.serial_number>>,
                  <<"    firmwareVersion: ", formData.firmware_version>> >>
      kept == SelectSeq(pairs, LAMBDA pair : pair[2] # "")
  IN  [ i \in 1..Len(kept) |-> <<kept[i][1], "\"", kept[i][2], "\"">> ]

\* C5: the Interface YAML has an annotations key under metadata exactly when
\* one of manufacturer, model, serial_number, firmware_version is non-empty;
\* it then lists exactly the non-empty fields, double-quoted, in the fixed
\* order.  The Instance YAML never has an annotations block.
C5_Annotations ==
  PreviewShown =>
    /\ HasLine(interfaceYaml, <<"  annotations:">>) <=> ExpectedAnnotations # <<>>
    /\ HasLine(interfaceYaml, <<"  annotations:">>) =>
         /\ LineIndex(interfaceYaml, <<"metadata:">>)
              < LineIndex(interfaceYaml, <<"  annotations:">>)
         /\ LineIndex(interfaceYaml, <<"  annotations:">>)
              < LineIndex(interfaceYaml, <<"spec:">>)
         /\ Between(interfaceYaml, <<"  annotations:">>, <<"spec:">>) = ExpectedAnnotations
    /\ ~HasLine(instanceYaml, <<"  annotations:">>)
    /\ \A i \in 1..Len(instanceYaml) : Head(instanceYaml[i]) \notin
         { "    manufacturer: ", "    model: ", "    serialNumber: ", "    firmwareVersion: " }

\* C5 witness: a rendered draft with all four annotation fields filled in
C5_Witness ==
  /\ PreviewShown
  /\ formData.manufacturer # "" /\ formData.model # ""
  /\ formData.serial_number # "" /\ formData.firmware_version # ""

\* C6: with zero properties, relationships or commands the Interface YAML
\* still has the key, followed by the empty-sequence marker []; the Instance
\* YAML always has "twinInstanceRelationships: []".
C6_EmptyLists ==
  PreviewShown =>
    /\ LineIndex(interfaceYaml, <<"spec:">>) > 0
    /\ LineIndex(interfaceYaml, <<"spec:">>) < LineIndex(interfaceYaml, <<"  properties:">>)
    /\ LineIndex(interfaceYaml, <<"  properties:">>)
         < LineIndex(interfaceYaml, <<"  relationships:">>)
    /\ LineIndex(interfaceYaml, <<"  relationships:">>)
         < LineIndex(interfaceYaml, <<"  commands:">>)
    /\ formData.properties = <<>> => PropertiesBlock(interfaceYaml) = << <<"    []">> >>
    /\ formData.relationships = <<>> => RelationshipsBlock(interfaceYaml) = << <<"    []">> >>
    /\ formData.commands = <<>> => CommandsBlock(interfaceYaml) = << <<"    []">> >>
    /\ HasLine(SpecBlock(instanceYaml), <<"  twinInstanceRelationships: []">>)

\* C6 witness: a rendered draft with no property, relationship or command
C6_Witness ==
  /\ PreviewShown
  /\ formData.properties = <<>>
  /\ formData.relationships = <<>>
  /\ formData.commands = <<>>

\* the draft and tenant of the end-to-end example
ExampleDraft ==
  [ InitialFormData EXCEPT !.id = TempSensor01, !.name = "Office Temp",
      !.thing_type = "sensor", !.properties = << TemperatureProperty >> ]
ExampleTenant == Some([ tenant_id |-> "acme" ])

\* C7: spec.properties has exactly one entry per draft property, in draft
\* order, each with the fields name, type, description, x-writable in that
\* order (x-writable false when the writable flag is unset); for the example
\* draft "TempSensor01" / "Office Temp" / sensor with one property
\* {temperature, float, writable} and tenant "acme", metadata.name and spec.name
\* are "ems-iodt2-tempsensor01", the labels are tenant: acme then
\* thing-type: sensor, and spec.properties is the one temperature entry.
C7_PropertyEntries ==
  PreviewShown =>
    /\ formData.properties # <<>> =>
         /\ Len(PropertiesBlock(interfaceYaml)) = 4 * Len(formData.properties)
         /\ \A i \in 1..Len(formData.properties) :
              LET p == formData.properties[i]
                  entry == SubSeq(PropertiesBlock(interfaceYaml), 4 * i - 3, 4 * i)
              IN  /\ entry[1] = Line("    - name: ", p.name)
                  /\ entry[2] = Line("      type: ", p.type)
                  /\ entry[3] = Line("      description: ", p.description)
                  /\ entry[4] = <<"      x-writable: ",
                                  IF p.writable THEN "true" ELSE "false">>
    /\ (formData = ExampleDraft /\ currentTenant = ExampleTenant) =>
         /\ KeyValue(MetadataBlock(interfaceYaml), "  name: ")
              = <<"ems-iodt2-", "t","e","m","p","s","e","n","s","o","r","0","1">>
         /\ KeyValue(SpecBlock(interfaceYaml), "  name: ")
              = <<"ems-iodt2-", "t","e","m","p","s","e","n","s","o","r","0","1">>
         /\ InterfaceLabelsBlock(interfaceYaml)
              = << <<"    tenant: ", "acme">>, <<"    thing-type: ", "sensor">> >>
         /\ PropertiesBlock(interfaceYaml)
              = << <<"    - name: ", "temperature">>,
                   <<"      type: ", "float">>,
                   <<"      description: ">>,
                   <<"      x-writable: ", "true">> >>

\* C7 witness: the example draft has been rendered for tenant acme
C7_Witness ==
  /\ PreviewShown
  /\ formData = ExampleDraft
  /\ currentTenant = ExampleTenant

\* a draft with every field the claim calls irrelevant set to a fixed value
Erased(fd) ==
  [ fd EXCEPT
      !.description = "",
      !.latitude = DefaultLatitude, !.longitude = DefaultLongitude,
      !.include_service_spec = TRUE, !.store_in_rdf = TRUE,
      !.dtdl_interface = None, !.dtdl_interface_summary = None,
      !.properties = [ i \in 1..Len(@) |->
                         [ @[i] EXCEPT !.unit = "", !.minimum = None, !.maximum = None ] ],
      !.relationships = [ i \in 1..Len(@) |-> [ @[i] EXCEPT !.description = "" ] ] ]

\* C8: the rendered YAML does not depend on a relationship's description, nor
\* on the draft description, latitude/longitude, include_service_spec,
\* store_in_rdf, the DTDL binding or a property's unit/minimum/maximum: the
\* displayed documents are those of the draft with these fields erased, so two
\* drafts that differ only there show the same YAML; each relationship entry
\* is its name line and its interface line only.
C8_IgnoredFieldsDoNotShow ==
  (formData.id # <<>> /\ formData.name # "") =>
    /\ interfaceYaml = InterfacePreview(Erased(formData), currentTenant)
    /\ instanceYaml = InstancePreview(Erased(formData), currentTenant)
    /\ formData.relationships # <<>> =>
         /\ Len(RelationshipsBlock(interfaceYaml)) = 2 * Len(formData.relationships)
         /\ \A i \in 1..Len(formData.relationships) :
              /\ RelationshipsBlock(interfaceYaml)[2 * i - 1]
                   = Line("    - name: ", formData.relationships[i].name)
              /\ RelationshipsBlock(interfaceYaml)[2 * i]
                   = Line("      interface: ", formData.relationships[i].target_interface)

\* C8 witness: a preview of a draft whose relationship has a description
C8_Witness ==
  /\ formData.id # <<>> /\ formData.name # ""
  /\ PreviewShown
  /\ formData.relationships # <<>>
  /\ formData.relationships[1].description # ""

\* C9: whenever draft.id or draft.name is empty, no YAML preview is shown
\* (both preview documents are empty), also after the user clears the id or
\* the name once a preview had been generated.
C9_NoPreviewWithoutIdAndName ==
  (formData.id = <<>> \/ formData.name = "") =>
    (interfaceYaml = <<>> /\ instanceYaml = <<>>)

\* C10: after any sequence of draft edits and tenant changes, whenever
\* draft.id and draft.name are both non-empty the displayed Interface and
\* Instance YAML are the projection of the current draft and current tenant.
C10_PreviewIsCurrentProjection ==
  (formData.id # <<>> /\ formData.name # "") =>
    /\ interfaceYaml = InterfacePreview(formData, currentTenant)
    /\ instanceYaml = InstancePreview(formData, currentTenant)

\* C10 witness: after four edits, a preview is shown for a named draft that
\* has a property while a tenant is selected
C10_Witness ==
  /\ formData.id # <<>> /\ formData.name # ""
  /\ formData.properties # <<>>
  /\ currentTenant # None
  /\ nEdits > 3
  /\ PreviewShown

\* ------------------------------------------------------------ auto-fill
\* the entries of an optional list of a summary
Details(list) == IF list = None THEN <<>> ELSE list[1]

\* C11: auto-fill maps every entry of summary.propertyDetails to a property
\* of the same name, type "string" when the source type is absent (the given
\* type otherwise), description and unit "" when absent, minimum and maximum
\* null, and writable equal to the source flag when it is given (an explicit
\* false stays false) and true when it is absent.
C11_AutoFillMapsPropertyDetails ==
  [][ nEdits' = nEdits + 1 =>
        LET summary == formData.dtdl_interface_summary[1]
            source == Details(summary.propertyDetails)
            before == Len(formData.properties)
        IN  /\ Len(formData'.properties) >= before + Len(source)
            /\ \A i \in 1..Len(source) :
                 LET made == formData'.properties[before + i]
                     src == source[i]
                 IN  /\ made.name = src.name
                     /\ (src.type = None => made.type = "string")
                     /\ (src.type \notin { None, Some("") } => made.type = src.type[1])
                     /\ made.description =
                          (IF src.description = None THEN "" ELSE src.description[1])
                     /\ made.unit = (IF src.unit = None THEN "" ELSE src.unit[1])
                     /\ made.minimum = None
                     /\ made.maximum = None
                     /\ (src.writable = Some(FALSE) => made.writable = FALSE)
                     /\ (src.writable = Some(TRUE) => made.writable = TRUE)
                     /\ (src.writable = None => made.writable = TRUE)
    ]_vars

\* an auto-fill has mapped an entry whose writable flag is an explicit false
\* and whose type is absent
C11_Witness ==
  /\ nEdits = 1
  /\ \E i \in 1..Len(Details(formData.dtdl_interface_summary[1].propertyDetails)) :
       LET src == Details(formData.dtdl_interface_summary[1].propertyDetails)[i]
       IN  /\ src.writable = Some(FALSE)
           /\ src.type = None
           /\ formData.properties[i].writable = FALSE
           /\ formData.properties[i].type = "string"

\* C12: every property auto-fill makes from summary.telemetryDetails is
\* read-only (writable false) whatever the source entry says, with type
\* "float" when the source type is absent.
C12_TelemetryIsReadOnly ==
  [][ nEdits' = nEdits + 1 =>
        LET summary == formData.dtdl_interface_summary[1]
            source == Details(summary.telemetryDetails)
            before == Len(formData.properties) + Len(Details(summary.propertyDetails))
        IN  /\ Len(formData'.properties) >= before + Len(source)
            /\ \A i \in 1..Len(source) :
                 LET made == formData'.properties[before + i]
                     src == source[i]
                 IN  /\ made.name = src.name
                     /\ made.writable = FALSE
                     /\ (src.type = None => made.type = "float")
                     /\ (src.type \notin { None, Some("") } => made.type = src.type[1])
    ]_vars

\* an auto-fill has mapped a telemetry entry that says writable: true and
\* gives no type
C12_Witness ==
  /\ nEdits = 1
  /\ LET summary == formData.dtdl_interface_summary[1]
         source == Details(summary.telemetryDetails)
         before == Len(Details(summary.propertyDetails))
     IN  /\ Len(source) = 1
         /\ source[1].writable = Some(TRUE)
         /\ source[1].type = None
         /\ formData.properties[before + 1].writable = FALSE
         /\ formData.properties[before + 1].type = "float"

\* C13: auto-fill is additive and not idempotent: what the draft held stays
\* as a prefix, in order; the properties made from propertyDetails and then
\* those made from telemetryDetails are appended to properties, and the
\* commands made from commandDetails to commands, with no check for names
\* already present, so each invocation makes the lists longer by the number
\* of entries of the summary.
C13_AutoFillAppends ==
  [][ nEdits' = nEdits + 1 =>
        LET summary == formData.dtdl_interface_summary[1]
            np == Len(Details(summary.propertyDetails))
            nt == Len(Details(summary.telemetryDetails))
            nc == Len(Details(summary.commandDetails))
            before == Len(formData.properties)
            beforeCommands == Len(formData.commands)
        IN  /\ Len(formData'.properties) = before + np + nt
            /\ SubSeq(formData'.properties, 1, before) = formData.properties
            /\ \A i \in 1..np : formData'.properties[before + i].name =
                                   Details(summary.propertyDetails)[i].name
            /\ \A i \in 1..nt : formData'.properties[before + np + i].name =
                                   Details(summary.telemetryDetails)[i].name
            /\ Len(formData'.commands) = beforeCommands + nc
            /\ SubSeq(formData'.commands, 1, beforeCommands) = formData.commands
            /\ \A i \in 1..nc : formData'.commands[beforeCommands + i].name =
                                   Details(summary.commandDetails)[i].name
    ]_vars

\* auto-fill ran twice with one summary and the draft holds every made entry
\* twice
C13_Witness ==
  /\ nEdits = 2
  /\ LET summary == formData.dtdl_interface_summary[1]
         n == Len(Details(summary.propertyDetails)) + Len(Details(summary.telemetryDetails))
     IN  /\ n = 3
         /\ Len(Details(summary.commandDetails)) = 1
         /\ Len(formData.properties) = 2 * n
         /\ Len(formData.commands) = 2
         /\ \A i \in 1..n : formData.properties[n + i] = formData.properties[i]

\* ------------------------------------------------------------ submission
\* C14: when no tenant is selected, or the draft's id or name is empty,
\* handleSubmit sends no create request, raises one error notification, does
\* not navigate and leaves the draft and the loading flag as they were; and
\* with no tenant the previews of a draft with id and name are still rendered.
C14_BlockedSubmission ==
  /\ [][ ( /\ handleSubmit
           /\ (currentTenant = None \/ formData.id = <<>> \/ formData.name = "") )
         => /\ createRequests' = createRequests
            /\ formData' = formData
            /\ Len(toasts') = Len(toasts) + 1
            /\ SubSeq(toasts', 1, Len(toasts)) = toasts
            /\ toasts'[Len(toasts')].variant = "destructive"
            /\ route' = route
            /\ isLoading' = isLoading
            /\ interfaceYaml' = interfaceYaml
            /\ instanceYaml' = instanceYaml
      ]_vars
  /\ [] ( (currentTenant = None /\ formData.id # <<>> /\ formData.name # "")
            => /\ interfaceYaml = InterfacePreview(formData, None)
               /\ instanceYaml = InstancePreview(formData, None)
               /\ interfaceYaml # <<>>
               /\ instanceYaml # <<>> )

\* handleSubmit was refused twice, once for the missing tenant and once for
\* the missing name, and nothing was sent
C14_Witness ==
  /\ Len(toasts) = 2
  /\ toasts[1].description = <<"Please select a tenant before creating a Thing">>
  /\ toasts[2].description = <<"ID and Name are required">>
  /\ formData.id # <<>>
  /\ createRequests = <<>>
  /\ isLoading = FALSE
  /\ route = "create"

C16_StaleResponseNeverApplied ==
  [][ (validationResult' # validationResult /\ validationResult' # None) =>
        /\ PanelMounted(formData)
        /\ formData.properties # <<>>
        /\ validationResult'[1].request = ValidationBody(ValidationInput(formData))
    ]_vars

\* C17: a validation request is sent only after 500 ms without a change of
\* properties, commands or bound interface, and it is the request of the
\* current input; each such change leaves exactly the one timer it starts
\* (none without binding or properties); never two timers are pending.
C17_Debounce ==
  /\ [] ( /\ Cardinality(timers) <= 1
          /\ \A t \in timers :
               /\ PanelMounted(formData)
               /\ formData.properties # <<>>
               /\ t.input = ValidationInput(formData) )
  /\ [][ /\ Len(validateRequests') > Len(validateRequests) =>
             /\ sinceChange >= ValidationDelay
             /\ PanelMounted(formData)
             /\ formData.properties # <<>>
             /\ validateRequests' =
                  Append(validateRequests, ValidationBody(ValidationInput(formData)))
             /\ timers' = {}
         /\ ( \/ formData'.properties # formData.properties
              \/ formData'.commands # formData.commands
              \/ formData'.dtdl_interface # formData.dtdl_interface ) =>
             /\ sinceChange' = 0
             /\ Len(validateRequests') <= Len(validateRequests)
             /\ timers' = IF PanelMounted(formData') /\ formData'.properties # <<>>
                            THEN { [ input |-> ValidationInput(formData'),
                                     due |-> ValidationDelay ] }
                            ELSE {}
      ]_vars

\* after binding an interface and adding two properties, one request was sent,
\* for the list of two, when 500 ms had passed since the second
C17_Witness ==
  /\ nEdits = 3
  /\ PanelMounted(formData)
  /\ Len(formData.properties) = 2
  /\ sinceChange = ValidationDelay
  /\ timers = {}
  /\ validateRequests = << ValidationBody(ValidationInput(formData)) >>
  /\ validationResult = None
  /\ loading

\* ------------------------------------------------------- late responses
\* C18: once the creation page is left, no response that arrives later
\* changes what the user sees: the route and the notifications stay as they
\* are.
C18_NoLateMutationAfterLeaving ==
  [][ route # "create" => (route' = route /\ toasts' = toasts) ]_vars

\* C19: every failed gateway call other than the location lookup ends in a
\* notification the user sees: the step that handles a rejected create or
\* validate request raises a toast.
C19_FailuresAreNotified ==
  [][ ( \/ \E i \in 1..Len(validateRequests) : ValidateFailed(i)
        \/ \E i \in 1..Len(createRequests), message \in CreateErrors :
             CreateFailed(i, message) )
      => /\ Len(toasts') = Len(toasts) + 1
         /\ toasts'[Len(toasts')].variant = "destructive"
    ]_vars

\* ------------------------------------------------------------- location
\* C20: getLocationInfo never rejects: it resolves to the response data when
\* the lookup succeeds and to null on a server error, a network error or a
\* timeout.
C20_LocationIsBestEffort ==
  located # None =>
    LET reply == lookup[1].reply
    IN  /\ located[1].state = "fulfilled"
        /\ (reply.kind = "response" /\ reply.status = 200
              => located[1].value = reply.data /\ located[1].value # None)
        /\ (reply.kind # "response" \/ reply.status # 200
              => located[1].value = None)

\* a lookup that timed out settled, fulfilled, with null
C20_Witness ==
  /\ located # None
  /\ lookup[1].reply.kind = "timeout"
  /\ located[1].state = "fulfilled"
  /\ located[1].value = None

\* ---------------------------------------------------- the gateway's calls
LastCall == gatewayCall[1]
LastSettled == settled[1]
ThingGatewayCalled == gatewayCall # None /\ LastCall.fn \in ThingGatewayFunctions
SearchCalled == gatewayCall # None /\ LastCall.fn = SearchFunction

\* the message the failure of a call is to carry
ExpectedMessage(reply) ==
  IF reply.kind = "response"
    THEN IF Truthy(reply.detail) THEN <<reply.detail[1]>>
         ELSE IF Truthy(reply.message) THEN <<reply.message[1]>>
         ELSE <<"Error ">> \o NumText(reply.status) \o <<": ", reply.statusText>>
  ELSE <<reply.errorMessage>>

\* C21: a call of a Thing-gateway function other than getLocationInfo makes
\* exactly one request and either resolves to the response's data or rejects
\* with an Error; it never resolves to undefined.  The Error's message is
\* the body's detail, else the body's message, else "Error <status>:
\* <statusText>" when the server responded, a "Network error: ..." text when
\* no response arrived, and the original error's message otherwise.
C21_CallsSettleWithDataOrError ==
  ThingGatewayCalled =>
    /\ Len(sent) = 1
    /\ LastSettled.state = "fulfilled" =>
         /\ AxiosResolves(LastCall.reply)
         /\ LastSettled.value # None
         /\ LastSettled.value = LastCall.reply.data
    /\ ~AxiosResolves(LastCall.reply) =>
         /\ LastSettled.state = "rejected"
         /\ LastSettled.message # None
         /\ IF LastCall.reply.kind \in { "network", "timeout" }
              THEN LastSettled.message[1][1] = "Network error: Unable to connect to "
              ELSE LastSettled.message[1] = ExpectedMessage(LastCall.reply)

\* a step that is a call through the shared client (a write to local
\* storage always changes the store)
GatewayCallStep == nCalls' # nCalls /\ localStorage' = localStorage /\ gatewayCall' # None

C26_ExplicitTenantWins ==
  [][ GatewayCallStep /\ gatewayCall'[1].fn = SearchFunction =>
        /\ Len(sent') = 1
        /\ IF Truthy(gatewayCall'[1].tenantId)
             THEN sent'[1].headers.XTenantID = gatewayCall'[1].tenantId
             ELSE \/ sent'[1].headers.XTenantID = None
                  \/ sent'[1].headers.XTenantID = localStorage.selectedTenant
                  \/ /\ localStorage.currentTenant # None
                     /\ sent'[1].headers.XTenantID =
                          Some(localStorage.currentTenant[1].tenant_id) ]_vars

OnlyListChanged(name) ==
  \A k \in DOMAIN formData \ { name } : formData'[k] = formData[k]

UpdatedExactly(old, new, index, field, value) ==
  /\ Len(new) = Len(old)
  /\ \A i \in 1..Len(old) : i # index => new[i] = old[i]
  /\ DOMAIN new[index] = DOMAIN old[index]
  /\ new[index][field] = value
  /\ \A f \in DOMAIN old[index] \ { field } : new[index][f] = old[index][f]

RemovedExactly(old, new, index) ==
  /\ Len(new) = Len(old) - 1
  /\ \A i \in 1..Len(new) : new[i] = old[IF i < index THEN i ELSE i + 1]

AppendedExactly(old, new, entry) ==
  /\ Len(new) = Len(old) + 1
  /\ \A i \in 1..Len(old) : new[i] = old[i]
  /\ new[Len(new)] = entry

\* C25: properties, relationships and commands are edited by index: an
\* update changes only the given field of the entry at the index, a removal
\* removes exactly the entry at the index and keeps the order of the others,
\* and an addition appends one entry with the default values; nothing else
\* of the draft changes.
C25_ListEditsAreByIndex ==
  [][ /\ \A index \in 1..Len(formData.properties), field \in PropertyFields :
           \A value \in PropertyFieldInputs(field) :
             updateProperty(index, field, value) =>
               /\ OnlyListChanged("properties")
               /\ UpdatedExactly(formData.properties, formData'.properties,
                                 index, field, value)
      /\ \A index \in 1..Len(formData.relationships), field \in RelationshipFields :
           \A value \in RelationshipFieldInputs(field) :
             updateRelationship(index, field, value) =>
               /\ OnlyListChanged("relationships")
               /\ UpdatedExactly(formData.relationships, formData'.relationships,
                                 index, field, value)
      /\ \A index \in 1..Len(formData.commands), field \in CommandFields :
           \A value \in CommandFieldInputs(field) :
             updateCommand(index, field, value) =>
               /\ OnlyListChanged("commands")
               /\ UpdatedExactly(formData.commands, formData'.commands,
                                 index, field, value)
      /\ \A index \in 1..Len(formData.properties) :
           removeProperty(index) =>
             /\ OnlyListChanged("properties")
             /\ RemovedExactly(formData.properties, formData'.properties, index)
      /\ \A index \in 1..Len(formData.relationships) :
           removeRelationship(index) =>
             /\ OnlyListChanged("relationships")
             /\ RemovedExactly(formData.relationships, formData'.relationships, index)
      /\ \A index \in 1..Len(formData.commands) :
           removeCommand(index) =>
             /\ OnlyListChanged("commands")
             /\ RemovedExactly(formData.commands, formData'.commands, index)
      /\ addProperty =>
           /\ OnlyListChanged("properties")
           /\ AppendedExactly(formData.properties, formData'.properties,
                [ name |-> "", type |-> "string", description |-> "",
                  writable |-> FALSE, unit |-> "", minimum |-> None, maximum |-> None ])
      /\ addRelationship =>
           /\ OnlyListChanged("relationships")
           /\ AppendedExactly(formData.relationships, formData'.relationships,
                [ name |-> "", target_interface |-> "", description |-> "" ])
      /\ addCommand =>
           /\ OnlyListChanged("commands")
           /\ AppendedExactly(formData.commands, formData'.commands,
                [ name |-> "", description |-> "" ])
    ]_vars

\* the second of two properties has been edited, the first still has the
\* default values
C25_Witness ==
  /\ Len(formData.properties) = 2
  /\ formData.properties[1].name = ""
  /\ formData.properties[1].type = "string"
  /\ formData.properties[2].name = "temperature"
  /\ formData.properties[2].type = "string"

\* C24: whenever the draft is bound to a DTDL interface, the summary cached
\* with the binding is null or the summary fetched for that same interface,
\* under every interleaving of selections, summary responses (failed, out of
\* order, after the modal closed), Confirm and Close.
C24_SummaryBelongsToBinding ==
  formData.dtdl_interface # None =>
    \/ formData.dtdl_interface_summary = None
    \/ formData.dtdl_interface_summary =
         Some(SummaryOf(formData.dtdl_interface[1].dtmi))

\* ------------------------------------------------------ deleting a Thing
DeleteRequests(requests) ==
  Len(SelectSeq(requests, LAMBDA request : request.kind = "delete"))

ListRequests(requests) ==
  Len(SelectSeq(requests, LAMBDA request : request.kind = "list"))

\* C23: deleting a Thing requires confirmation.  When the user declines, no
\* request is made and the list or details page is unchanged.  After a
\* delete that succeeded the list page reloads its list and the details page
\* navigates to the list; after one that failed the page stays where it is
\* and shows the error.
C23_DeleteAsksFirst ==
  [][ /\ DeleteRequests(thingRequests') > DeleteRequests(thingRequests) =>
           \E name \in ThingNames : handleDelete(name, TRUE)
      /\ \A name \in ThingNames :
           handleDelete(name, FALSE) =>
             /\ thingRequests' = thingRequests
             /\ <<thingsPage, interfaces, thingsLoading, interfaceData, thingsToasts>>' =
                  <<thingsPage, interfaces, thingsLoading, interfaceData, thingsToasts>>
      /\ \A i \in 1..Len(thingRequests) :
           DeleteSucceeded(i) =>
             IF thingRequests[i].page = "list"
               THEN /\ ListRequests(thingRequests') = ListRequests(thingRequests) + 1
                    /\ thingsPage' = thingsPage
               ELSE thingsPage'.kind = "list"
      /\ \A i \in 1..Len(thingRequests), message \in DeleteErrors :
           DeleteFailed(i, message) =>
             /\ thingsPage' = thingsPage
             /\ <<interfaces, interfaceData>>' = <<interfaces, interfaceData>>
             /\ ListRequests(thingRequests') = ListRequests(thingRequests)
             /\ Len(thingsToasts') = Len(thingsToasts) + 1
             /\ thingsToasts'[Len(thingsToasts')].variant = "destructive"
             /\ thingsToasts'[Len(thingsToasts')].description = <<message>> ]_vars

\* the details page deleted its Thing and the list page is mounted again
C23_Witness ==
  /\ thingsPage.kind = "list"
  /\ thingsPage.mount = 3
  /\ serverThings # ThingNames
  /\ \E i \in 1..Len(thingsToasts) : thingsToasts[i].title = "Success"

\* C28: on the search page sparqlMode is true exactly when searchMode is
\* "sparql", after any sequence of mode selections and of re-using a saved
\* search or a history entry; so performSearch runs the kind of query that
\* matches the panel on display.
C28_ModesAgree ==
  /\ sparqlMode <=> (searchMode = "sparql")
  /\ lastSearch # None => lastSearch[1].query = lastSearch[1].panel

\* C29: the fallback of the map style terminates: each fallback style is
\* tried at most once, in the order of the list, and when the last one has
\* failed the component stops and leaves the error state set.
C29_FallbackTerminates ==
  [][ \A error \in MapErrors :
        handleMapError(error) =>
          /\ \A i, j \in 1..Len(fallbacksTried') :
               i < j => fallbacksTried'[i] < fallbacksTried'[j]
          /\ currentMapStyle = fallbackStyles[Len(fallbackStyles)] =>
               /\ currentMapStyle' = currentMapStyle
               /\ mapError' = Some(error) ]_vars

\* C30: in the location picker the coordinates of tempLocation are those of
\* the point clicked last, however the reverse-geocoding and elevation
\* responses of the clicks are ordered; and the parent's location is changed
\* only by Confirm, never by Cancel or by a response that arrives after
\* Cancel.
C30_TempLocationIsLastClick ==
  [][ /\ location' # location => handleConfirm
      /\ isDialogOpen' /\ lastClick' # None /\ pickerLookups' = <<>> =>
           /\ tempLocation' # None
           /\ tempLocation'[1].latitude = CoordToString(lastClick'[1].lat)
           /\ tempLocation'[1].longitude = CoordToString(lastClick'[1].lng) ]_vars
====
